---- MODULE Spec2Model ----
(***************************************************************************)
(* A model of project-mask: the diff compiler (capture/capture_tool.py),   *)
(* the replay engine and typing loop (replay/replay_engine.py,             *)
(* replay/vscode_controller.py) and the session orchestrator               *)
(* (orchestrator/session_orchestrator.py).                                 *)
(*                                                                         *)
(* The module holds several specifications over one set of variables:      *)
(*   SpecGroup    the two line-grouping builders applied to one buffer     *)
(*   SpecCompile  one patched file compiled hunk by hunk, then its         *)
(*                operations applied to the pre-image in emitted order     *)
(* Each specification leaves the variables of the others at their idle     *)
(* values.                                                                 *)
(***************************************************************************)
EXTENDS Integers, Sequences, FiniteSets, TLC

VARIABLES
    \* ---- SpecGroup: one buffer of (line_number, payload) pairs
    gpc,            \* "input" | "deleted" | "inserted"
    glines,         \* the buffer handed to the builders
    gdel,           \* result of _build_delete_operations
    gins,           \* result of _build_insert_operations
    gser,           \* to_dict of the operations built
    \* ---- SpecCompile: one patched file
    tags,           \* the diff lines of the file: "ctx" | "rem" | "add"
    marks,          \* hunk membership of each diff line: "out" | "start" | "cont"
    lead,           \* unchanged lines of the file in front of the first diff line
    is_new,         \* patched_file.is_added_file
    cpc,            \* "hunks" | "apply" | "done"
    hunkIdx,        \* number of hunks processed so far
    operations,     \* changes.operations
    removed_lines,  \* _process_hunk's removed_lines of the last hunk processed
    added_lines,    \* _process_hunk's added_lines of the last hunk processed
    hunkOps,        \* the operations the last hunk processed returned
    doc,            \* the document the operations are applied to
    opIdx,          \* number of operations applied so far
    wire,           \* FileChanges.to_dict()['operations'] of the session built
    read_back,      \* FileOperation.from_dict of that dictionary
    \* ---- SpecEngine: one ReplayEngine.execute call
    epc,            \* position of the engine inside execute
    n_files,        \* len(session.files)
    replay_config,  \* session.replay_config
    file_i,         \* files whose loop iteration is complete
    file_path,      \* file_op.path of the file being processed
    n_ops,          \* len(file_op.operations) of that file
    op_i,           \* operations of that file that were executed
    op_kind,        \* op.op_type of the operation being executed
    op_len,         \* len(op.content) of the insert being executed
    char_i,         \* characters of the content the typing loop went through
    attempts,       \* open_file attempts made for the file being processed
    current_file,   \* ReplayEngine._current_file
    engine_abort,   \* ReplayEngine._abort_requested
    vscode_abort,   \* VSCodeController._abort_requested
    input_abort,    \* XdotoolBackend._abort_requested
    base_wpm,       \* VSCodeController.base_wpm
    typo_probability,           \* VSCodeController.typo_probability (percent)
    thinking_pause_probability, \* VSCodeController.thinking_pause_probability (percent)
    original,       \* original_config of the running execute
    outcome,        \* how execute ends: "none" | "true" | "abort" | "fileopen" | "error"
    \* history of the run (read by the properties only)
    pre_call,       \* the controller's settings when execute was called
    restore_ran,    \* _restore_config has run
    aborts,         \* request_abort calls made during the run
    req_at,         \* where the engine was when request_abort was first called
    late_chars,     \* characters typed after that call
    abort_seen,     \* a cancellation check has observed the request
    late_calls,     \* open/goto/delete/save calls issued after abort_seen
    cut_short,      \* a type_code call returned False
    open_failed,    \* every open attempt of some file failed
    fail_calls,     \* actuator calls issued after open_failed
    typing_resets,  \* reset_typing_state calls made by this execute
    op_calls,       \* controller calls issued for the operation picked last
    between_pause,  \* history: _maybe_pause_between_files slept before the open under way
    \* ---- SpecOrch: the SessionOrchestrator daemon
    opc,                    \* position of the daemon
    session_files,          \* session_*.json files of the replay directory
    shutdown_requested,     \* SessionOrchestrator._shutdown_requested
    is_clocked_in,          \* SessionOrchestrator._is_clocked_in
    consecutive_failures,   \* SessionOrchestrator._consecutive_failures
    processed_sessions,     \* SessionOrchestrator._processed_sessions
    processed_file,         \* the ids written to the processed file
    pending,                \* run_once's pending list
    pend_i,                 \* sessions of the list run_once is done with
    processed_count,        \* run_once's processed_count
    current_session,        \* SessionOrchestrator._current_session
    exec_result,            \* how replay_engine.execute ended
    replay_cut,             \* an abort stopped the typing of an insert of this replay
    \* history of one process_session call (read by the properties only)
    started,        \* start_session returned True
    clock_outs,     \* clock_out calls made
    ret,            \* value returned: "none" | "true" | "false"
    replay_engine,  \* _replay_engine is not None
    o_abort,        \* the replay engine's _abort_requested
    signal_at,      \* history: where the daemon was when the signal handler ran
    replay_late,    \* history: the abort request came after execute's last check
    session_id_of,  \* the session_id stored inside each session file
    completed,      \* history: the files process_session returned True for
    \* ---- SpecParse: DiffParser.parse_diff_text on one diff text
    ppc,            \* "ready" | "files" | "returned"
    diff_text,      \* the text handed to parse_diff_text
    file_k,         \* patched files _process_patch_set is done with
    result,         \* _process_patch_set's result list
    warnings,       \* DiffParser._warnings
    returned,       \* the list parse_diff_text returned, None when it raised
    parse_error,    \* the DiffParseError raised, None when it returned
    \* history of the calls (read by the properties only)
    calls,          \* parse_diff_text calls made
    first_returned, \* what the first call returned
    first_warnings, \* the warnings after the first call
    first_error,    \* what the first call raised
    \* ---- SpecValidate: one session dictionary and its two readers
    vpc,            \* "start" | "file" | "op" | "op_read" | "files_end" | "done" | "executed"
    v_file_i,       \* file entries read so far
    v_op_i,         \* operations of that file entry read so far
    cur_op,         \* the operation dictionary read last
    errors,         \* len(errors) of validate_session (counted up to MaxErrors)
    v_raised,       \* validate_session left with a TypeError
    fd_status,      \* from_dict: "running" | "raised" | "crashed" | "built"
    fd_at,          \* position of the element at which from_dict raised
    first_bad,      \* position of the first element that breaks a rule
    built_kinds,    \* op_type of the operations from_dict built
    content_kept,   \* from_dict built a non-insert with content or an insert without
    content_passed, \* validate_session had no entry for such an operation
    unknown_seen,   \* an operation dictionary of unknown type was read
    dispatched,     \* branches _execute_operation took for the built session
    \* Typing (SpecTyping)
    tpc, \* "idle" / "loop" / "char" / "returned"
    t_text, \* the text given to type_code
    t_i, \* index of the loop over the text
    prev_char, \* prev_char of type_code
    chars_typed, \* VSCodeController._chars_typed
    t_abort, \* VSCodeController._abort_requested
    t_config, \* the probabilities the controller was built with
    t_typo_probability, \* VSCodeController.typo_probability
    t_saved_typo, \* original_typo_prob of the running call
    t_override, \* the typo_probability argument of the call
    stream, \* values of the generator, by position, once looked at
    rng_i, \* draws made since the generator was seeded
    foreign, \* of these, draws made by _maybe_pause_between_files
    events, \* calls made on the input backend by this type_code call
    typos, \* positions of the text at which a typo was injected
    corrected_at, \* of these, positions at which the typo was corrected
    last_n, \* len(events) before the last iteration of the loop
    t_result, \* "none" / "true" / "false" / "raised"
    first_run,\* events and typos of the first of two runs from one seed
    emitted_last, \* the character the editor received last in this call
    pause_on, \* history: the last pause decision, its argument and emitted_last then
    t_base_wpm, \* VSCodeController.base_wpm
    t_saved_wpm, \* original_wpm of the running type_code call
    t_wpm_override, \* the wpm argument of the call, None or a value
    t_entry, \* history: base_wpm and typo_probability when type_code was entered
    \* Intervention (SpecIntervention)
    i_config, \* InterventionConfig
    ipc, \* per thread: off / idle / unborn / wait / check / recover / dead
    stop_event, \* _stop_event.is_set()
    monitor_thread, \* _monitor_thread, None or the registered thread
    now, \* time.time() in ticks
    last_intervention, \* _last_intervention
    retry_count, \* _retry_count
    critical_failure, \* history: _trigger_critical_failure was called
    last_event, \* status of the last recorded event
    prev_start, \* history: start time of the recovery before the latest
    last_start, \* history: start time of the latest recovery
    retry_read, \* per thread: the _retry_count read by `_retry_count += 1`
    failed_since, \* history: failed recoveries since the last reset of the count
    triggered_at,\* history: _retry_count at the latest _trigger_critical_failure
    \* Recovery (SpecRecovery)
    rpc, \* RecoveryExecutor.execute: off / call / loop / returned
    actions, \* the list handed to execute
    results, \* the list execute builds and returns
    attempted \* history: positions of the actions _execute_single was called for

groupVars == <<gpc, glines, gdel, gins, gser>>
compileVars == <<tags, marks, lead, is_new, cpc, hunkIdx, operations,
                 removed_lines, added_lines, hunkOps, doc, opIdx,
                 wire, read_back>>
sessVars == <<n_files, replay_config>>
posVars == <<file_i, file_path, n_ops, op_i, op_kind, op_len, char_i, attempts, current_file>>
flagVars == <<engine_abort, vscode_abort, input_abort>>
ctlVars == <<base_wpm, typo_probability, thinking_pause_probability>>
histVars == <<pre_call, restore_ran, aborts, req_at, late_chars, abort_seen,
              late_calls, cut_short, open_failed, fail_calls, typing_resets,
              op_calls, between_pause>>
engineVars == <<epc, sessVars, posVars, flagVars, ctlVars, original,
                outcome, histVars>>
orchVars == <<opc, session_files, shutdown_requested, is_clocked_in,
              consecutive_failures, processed_sessions, processed_file, pending,
              pend_i, processed_count, current_session, exec_result, replay_cut, started,
              clock_outs, ret, replay_engine, o_abort, signal_at, replay_late,
              session_id_of, completed>>
parseVars == <<ppc, diff_text, file_k, result, warnings, returned, parse_error,
               calls, first_returned, first_warnings, first_error>>
validateVars == <<vpc, v_file_i, v_op_i, cur_op, errors, v_raised, fd_status,
                  fd_at, first_bad, built_kinds, content_kept, content_passed,
                  unknown_seen, dispatched>>
typingVars == <<tpc, t_text, t_i, prev_char, chars_typed, t_abort, t_config,
                t_typo_probability, t_saved_typo, t_override, stream, rng_i,
                foreign, events, typos, corrected_at, last_n, t_result,
                first_run,
                emitted_last, pause_on, t_base_wpm, t_saved_wpm,
                t_wpm_override, t_entry>>
interventionVars == <<i_config, ipc, stop_event, monitor_thread, now,
                      last_intervention, retry_count, critical_failure,
                      last_event, prev_start, last_start, retry_read,
                      failed_since, triggered_at>>
recoveryVars == <<rpc, actions, results, attempted>>
vars == <<groupVars, compileVars, engineVars, orchVars, parseVars, validateVars,
         typingVars,
         interventionVars,
         recoveryVars>>

\* ---------------------------------------------------------------- bounds
MaxLineNo == 10     \* SpecGroup: line numbers of the buffer are in 1..MaxLineNo
MaxLines == 4       \* SpecCompile: diff lines (context, removed, added) of the file
MaxLead == 9        \* SpecCompile: unchanged lines in front of the diff lines
MaxFiles == 2       \* SpecEngine: files of the session
MaxOps == 2         \* SpecEngine: operations of one file
MaxChars == 2       \* SpecEngine: characters of one insert's content
MaxSessions == 2    \* SpecOrch: session files of the replay directory
MaxPatchFiles == 3  \* SpecParse: file sections of the diff text
MaxCalls == 2       \* SpecParse: parse_diff_text calls on the same text
MaxAborts == 1      \* SpecEngine: request_abort calls during one execute
MaxErrors == 3      \* SpecValidate: entries of validate_session's list that are counted
MaxText == 2        \* SpecTyping: characters of the text typed
MaxTyped == 4       \* SpecTyping: _chars_typed stays within 0..MaxTyped
MaxForeign == 1     \* SpecTyping: between-file pauses drawn by the engine
MaxActions == 4     \* SpecRecovery: actions in the list handed to execute
MaxMonitors == 2
MaxClock == 4
MaxRetryCount == 3

\* ------------------------------------------------------------- basic data
NL == 10            \* the line terminator '\n'

\* Python's None and a present value, as a set of at most one element.
None == {}
Some(x) == {x}
Get(o) == CHOOSE x \in o : TRUE

Min(a, b) == IF a <= b THEN a ELSE b

\* The text of the line with identity k, terminator included (line.value).
LineText(k) == <<100 + k, NL>>

RECURSIVE Flatten(_)
\* ''.join(texts)
Flatten(texts) ==
    IF texts = <<>> THEN <<>> ELSE Head(texts) \o Flatten(Tail(texts))

RECURSIVE SplitFrom(_, _)
\* The lines of a text, each keeping its terminator; an unterminated rest is
\* a line of its own (what typing the text into the editor produces).
SplitFrom(text, cur) ==
    IF text = <<>> THEN (IF cur = <<>> THEN <<>> ELSE <<cur>>)
    ELSE IF Head(text) = NL
         THEN <<Append(cur, NL)>> \o SplitFrom(Tail(text), <<>>)
         ELSE SplitFrom(Tail(text), Append(cur, Head(text)))

SplitLines(text) == SplitFrom(text, <<>>)

\* ------------------------------------------------------- DiffOperation
DeleteOp(start, end) ==
    [op_type |-> "delete", line |-> start,
     line_end |-> IF end # start THEN Some(end) ELSE None, content |-> None]

InsertOp(start, content) ==
    [op_type |-> "insert", line |-> start, line_end |-> None,
     content |-> Some(content)]

\* The DiffOperation values: any type, line and optional fields.
DiffOperations ==
    [op_type : {"navigate", "delete", "insert"}, line : 1..MaxLineNo,
     line_end : {None} \cup {Some(n) : n \in 1..MaxLineNo},
     content : {None, Some(LineText(1))}]

\* `if <present>: result[key] = value`
WithKey(d, present, key, value) == IF present THEN d @@ (key :> value) ELSE d

\* Variant: line_end is written whenever it is set.
ToDictLineEndWhenSet(op) ==
    WithKey(
        WithKey([type |-> op.op_type, line |-> op.line],
                op.line_end # None, "line_end", Get(op.line_end)),
        op.content # None, "content", Get(op.content))

\* DiffOperation.to_dict
ToDict(op) ==
    WithKey(
        WithKey([type |-> op.op_type, line |-> op.line],
                op.line_end # None /\ Get(op.line_end) # op.line,
                "line_end", Get(op.line_end)),
        op.content # None, "content", Get(op.content))

\* ------------------------------------------- _build_delete_operations
RECURSIVE DeleteGroups(_, _, _, _)
\* The loop over removed_lines[1:], carrying (current_start, current_end).
DeleteGroups(lines, i, cs, ce) ==
    IF i > Len(lines) THEN <<<<cs, ce>>>>
    ELSE IF lines[i][1] = ce + 1
         THEN DeleteGroups(lines, i + 1, cs, lines[i][1])
         ELSE <<<<cs, ce>>>> \o DeleteGroups(lines, i + 1, lines[i][1], lines[i][1])

\* Variant: the last group is never appended.
BuildDeleteOperationsDropLast(lines) ==
    IF lines = <<>> THEN <<>>
    ELSE LET groups == DeleteGroups(lines, 2, lines[1][1], lines[1][1])
         IN  [g \in 1..(Len(groups) - 1) |-> DeleteOp(groups[g][1], groups[g][2])]

BuildDeleteOperations(lines) ==
    IF lines = <<>> THEN <<>>
    ELSE LET groups == DeleteGroups(lines, 2, lines[1][1], lines[1][1])
         IN  [g \in 1..Len(groups) |-> DeleteOp(groups[g][1], groups[g][2])]

\* ------------------------------------------- _build_insert_operations
RECURSIVE InsertGroups(_, _, _)
\* The loop over added_lines[1:], carrying current_group.
InsertGroups(lines, i, cur) ==
    IF i > Len(lines) THEN <<cur>>
    ELSE IF lines[i][1] = cur[Len(cur)][1] + 1
         THEN InsertGroups(lines, i + 1, Append(cur, lines[i]))
         ELSE <<cur>> \o InsertGroups(lines, i + 1, <<lines[i]>>)

\* content = ''.join(line[1] for line in group); the trailing newline is kept.
\* Variant: one trailing newline is removed from the content.
GroupContentStripped(group) ==
    LET c == Flatten([j \in 1..Len(group) |-> group[j][2]])
    IN  IF c # <<>> /\ c[Len(c)] = NL THEN SubSeq(c, 1, Len(c) - 1) ELSE c

GroupContent(group) == Flatten([j \in 1..Len(group) |-> group[j][2]])

BuildInsertOperations(lines) ==
    IF lines = <<>> THEN <<>>
    ELSE LET groups == InsertGroups(lines, 2, <<lines[1]>>)
         IN  [g \in 1..Len(groups) |->
                 InsertOp(groups[g][1][1], GroupContent(groups[g]))]

\* ---------------------------------------------------------- the patched file
NumLines == Len(tags)

IsSource(i) == tags[i] # "add"      \* a line of the pre-image
IsTarget(i) == tags[i] # "rem"      \* a line of the post-image

\* Position of diff line i in the pre-image / the post-image (1-based).
PrePos(i) == lead + Cardinality({j \in 1..i : IsSource(j)})
PostPos(i) == lead + Cardinality({j \in 1..i : IsTarget(j)})

LeadLines == [k \in 1..lead |-> LineText(k)]
DiffText(i) == LineText(lead + i)

RECURSIVE Pick(_, _)
\* The texts of the diff lines of `idx` (an ascending sequence of indices).
Pick(i, keep) ==
    IF i > NumLines THEN <<>>
    ELSE (IF i \in keep THEN <<DiffText(i)>> ELSE <<>>) \o Pick(i + 1, keep)

PreImage == LeadLines \o Pick(1, {i \in 1..NumLines : IsSource(i)})
PostImage == LeadLines \o Pick(1, {i \in 1..NumLines : IsTarget(i)})

\* Hunks: hunk h starts at the h-th line marked "start" and runs over the
\* lines marked "cont" that follow it.
HunkStarts == {i \in 1..NumLines : marks[i] = "start"}
NumHunks == Cardinality(HunkStarts)
HunkFirst(h) ==
    CHOOSE s \in HunkStarts : Cardinality({t \in HunkStarts : t < s}) = h - 1
HunkLast(h) ==
    CHOOSE e \in HunkFirst(h)..NumLines :
        /\ \A j \in (HunkFirst(h) + 1)..e : marks[j] = "cont"
        /\ (e = NumLines \/ marks[e + 1] # "cont")
HunkOf(i) == CHOOSE h \in 1..NumHunks : HunkFirst(h) <= i /\ i <= HunkLast(h)

\* hunk.source_start / hunk.target_start of a valid unified diff: the first
\* line of the range, or the line in front of it when the range is empty.
HunkSourceStart(h) ==
    LET before == lead + Cardinality({j \in 1..(HunkFirst(h) - 1) : IsSource(j)})
        empty == \A j \in HunkFirst(h)..HunkLast(h) : ~IsSource(j)
    IN  IF empty THEN before ELSE before + 1
HunkTargetStart(h) ==
    LET before == lead + Cardinality({j \in 1..(HunkFirst(h) - 1) : IsTarget(j)})
        empty == \A j \in HunkFirst(h)..HunkLast(h) : ~IsTarget(j)
    IN  IF empty THEN before ELSE before + 1

\* ------------------------------------------------------------ _process_hunk
\* The counters after one hunk line: removed lines advance the source
\* counter, added lines the target counter, context lines both.
\* Variant: a removed line advances the target counter as well.
NextCountersRemovedBoth(tag, src, tgt) ==
    IF tag = "add" THEN <<src, tgt + 1>> ELSE <<src + 1, tgt + 1>>

NextCounters(tag, src, tgt) ==
    IF tag = "rem" THEN <<src + 1, tgt>>
    ELSE IF tag = "add" THEN <<src, tgt + 1>>
    ELSE <<src + 1, tgt + 1>>

RECURSIVE HunkScan(_, _, _, _, _, _)
\* The loop `for line in hunk`, carrying both counters and both buffers.
HunkScan(i, last, src, tgt, rem, add) ==
    IF i > last THEN [removed |-> rem, added |-> add]
    ELSE LET nxt == NextCounters(tags[i], src, tgt)
         IN  HunkScan(i + 1, last, nxt[1], nxt[2],
                 IF tags[i] = "rem" THEN Append(rem, <<src, DiffText(i)>>) ELSE rem,
                 IF tags[i] = "add" THEN Append(add, <<tgt, DiffText(i)>>) ELSE add)

HunkBuffers(h) ==
    HunkScan(HunkFirst(h), HunkLast(h), HunkSourceStart(h), HunkTargetStart(h),
             <<>>, <<>>)

\* Variant: the deletes of a new file are kept.
HunkOperationsDeletesKept(removed, added, new_file) ==
    (IF removed # <<>> THEN BuildDeleteOperations(removed) ELSE <<>>)
    \o (IF added # <<>> THEN BuildInsertOperations(added) ELSE <<>>)

\* Variant: the inserts of the hunk are put in front of its deletes.
HunkOperationsInsertsFirst(removed, added, new_file) ==
    (IF added # <<>> THEN BuildInsertOperations(added) ELSE <<>>)
    \o (IF removed # <<>> /\ ~new_file THEN BuildDeleteOperations(removed) ELSE <<>>)

\* The operations _process_hunk returns: deletes (not for a new file), then inserts.
HunkOperations(removed, added, new_file) ==
    (IF removed # <<>> /\ ~new_file THEN BuildDeleteOperations(removed) ELSE <<>>)
    \o (IF added # <<>> THEN BuildInsertOperations(added) ELSE <<>>)

\* ------------------------------------------------- the editor's document
\* The document without its lines a..b (1 <= a <= b <= Len(d)).
RemoveLines(d, a, b) == SubSeq(d, 1, a - 1) \o SubSeq(d, b + 1, Len(d))

\* delete_lines(start_line, end_line): the documents the editor may be left
\* with.  Lines start..end of the current document are removed; a range that
\* starts behind the last line either removes nothing or, the caret having
\* been put on the last line, removes that line.
DeleteLines(d, start, end) ==
    IF start <= Len(d) THEN {RemoveLines(d, start, Min(end, Len(d)))}
    ELSE IF d = <<>> THEN {d}
         ELSE {d, RemoveLines(d, Len(d), Len(d))}

\* goto_line(line) followed by type_code(content): the lines of content are
\* placed in front of the current line `line` (at the end when the document
\* is shorter).
TypeAt(d, line, content) ==
    LET at == Min(line, Len(d) + 1)
    IN  SubSeq(d, 1, at - 1) \o SplitLines(content) \o SubSeq(d, at, Len(d))

\* --------------------------------------------------------------- SpecGroup
RECURSIVE Ascending(_)
\* The (line_number, payload) pairs of a set of line numbers, ascending.
Ascending(S) ==
    IF S = {} THEN <<>>
    ELSE LET m == CHOOSE x \in S : \A y \in S : x <= y
         IN  <<<<m, LineText(m)>>>> \o Ascending(S \ {m})

GroupIdle ==
    /\ gpc = "idle"
    /\ glines = <<>>
    /\ gdel = <<>>
    /\ gins = <<>>
    /\ gser = <<>>

GroupInit ==
    /\ gpc = "input"
    /\ glines \in {Ascending(S) : S \in SUBSET (1..MaxLineNo)}
    /\ gdel = <<>>
    /\ gins = <<>>
    /\ gser = <<>>

GroupBuildDelete ==
    /\ gpc = "input"
    /\ gdel' = BuildDeleteOperations(glines)
    /\ gpc' = "deleted"
    /\ UNCHANGED <<glines, gins, gser>>

GroupBuildInsert ==
    /\ gpc = "deleted"
    /\ gins' = BuildInsertOperations(glines)
    /\ gpc' = "inserted"
    /\ UNCHANGED <<glines, gdel, gser>>

\* FileChanges.to_dict: `[op.to_dict() for op in self.operations]`.
GroupSerialize ==
    /\ gpc = "inserted"
    /\ gser' = [k \in 1..(Len(gdel) + Len(gins)) |-> ToDict((gdel \o gins)[k])]
    /\ gpc' = "serialized"
    /\ UNCHANGED <<glines, gdel, gins>>

\* ------------------------------------------------------------- SpecCompile
Tags == {"ctx", "rem", "add"}
Marks == {"out", "start", "cont"}

\* A diff of one file as PatchSet accepts it: changed lines lie in hunks and
\* a hunk is a run of lines.  A file marked as newly created (source
\* /dev/null) has no lines in front of its diff lines; its hunks are not
\* restricted to added lines.
ValidDiff(t, m, l, new) ==
    /\ \A i \in 1..Len(t) :
        /\ (m[i] = "out" => t[i] = "ctx")
        /\ (m[i] = "cont" => i > 1 /\ m[i - 1] # "out")
    /\ new => l = 0

\* No session dictionary has been read yet.
NotLoaded == [status |-> "none", operations |-> <<>>]

CompileIdle ==
    /\ tags = <<>>
    /\ marks = <<>>
    /\ lead = 0
    /\ is_new = FALSE
    /\ cpc = "idle"
    /\ hunkIdx = 0
    /\ operations = <<>>
    /\ removed_lines = <<>>
    /\ added_lines = <<>>
    /\ hunkOps = <<>>
    /\ doc = <<>>
    /\ opIdx = 0
    /\ wire = <<>>
    /\ read_back = NotLoaded

CompileInit ==
    /\ \E n \in 0..MaxLines :
        /\ tags \in [1..n -> Tags]
        /\ marks \in [1..n -> Marks]
    /\ lead \in {0, MaxLead}
    /\ is_new \in BOOLEAN
    /\ ValidDiff(tags, marks, lead, is_new)
    /\ cpc = "hunks"
    /\ hunkIdx = 0
    /\ operations = <<>>
    /\ removed_lines = <<>>
    /\ added_lines = <<>>
    /\ hunkOps = <<>>
    /\ doc = PreImage
    /\ opIdx = 0
    /\ wire = <<>>
    /\ read_back = NotLoaded

\* One iteration of `for hunk in patched_file`: _process_hunk and the extend.
ProcessHunk ==
    /\ cpc = "hunks"
    /\ hunkIdx < NumHunks
    /\ LET buf == HunkBuffers(hunkIdx + 1)
           ops == HunkOperations(buf.removed, buf.added, is_new)
       IN  /\ removed_lines' = buf.removed
           /\ added_lines' = buf.added
           /\ hunkOps' = ops
           /\ operations' = operations \o ops
    /\ hunkIdx' = hunkIdx + 1
    /\ UNCHANGED <<tags, marks, lead, is_new, cpc, doc, opIdx, wire, read_back>>

\* _execute_operation on the next operation of the file.
ExecuteOperation ==
    /\ cpc = "apply"
    /\ opIdx < Len(operations)
    /\ LET op == operations[opIdx + 1]
       IN  IF op.op_type = "delete"
           THEN doc' \in DeleteLines(doc, op.line,
                            IF op.line_end # None THEN Get(op.line_end) ELSE op.line)
           ELSE doc' = TypeAt(doc, op.line, Get(op.content))
    /\ opIdx' = opIdx + 1
    /\ UNCHANGED <<tags, marks, lead, is_new, cpc, hunkIdx, operations,
                   removed_lines, added_lines, hunkOps, wire, read_back>>

\* The operations of the file are exhausted.
FinishReplay ==
    /\ cpc = "apply"
    /\ opIdx = Len(operations)
    /\ cpc' = "done"
    /\ UNCHANGED <<tags, marks, lead, is_new, hunkIdx, operations,
                   removed_lines, added_lines, hunkOps, doc, opIdx,
                   wire, read_back>>

\* --------------------------------------------------------------- SpecEngine
FileOpenRetries == 1        \* VSCodeController.file_open_retries (default)
DefaultWpm == 85            \* VSCodeController.base_wpm (default)
DefaultTypoPct == 2         \* VSCodeController.typo_probability (default 0.02)
DefaultPausePct == 10       \* VSCodeController.thinking_pause_probability (default 0.10)

Paths == {"a.py", "b.py"}
OpKinds == {"navigate", "delete", "insert"}
CharClasses == {"alnum", "newline", "other"}
ConfigKeys == {"base_wpm", "typo_probability", "thinking_pause_probability"}

\* ReplayConfig: every numeric field set or unset, thinking_pauses on or off.
ReplayConfigs ==
    [base_wpm : {None, Some(120)},
     typo_probability : {None, Some(5)},
     thinking_pause_probability : {None, Some(50)},
     thinking_pauses : BOOLEAN]

\* The controller's three overridable settings, as one record.
Controller ==
    [base_wpm |-> base_wpm, typo_probability |-> typo_probability,
     thinking_pause_probability |-> thinking_pause_probability]

NoOriginal == [k \in ConfigKeys |-> None]

\* One `if replay_config.<key> is not None:` block of _apply_session_config.
Override(st, key, value) ==
    IF value # None
    THEN [original |-> [st.original EXCEPT ![key] = Some(st.ctl[key])],
          ctl |-> [st.ctl EXCEPT ![key] = Get(value)]]
    ELSE st

\* Variant: the thinking_pauses block runs before the three override blocks.
ApplySessionConfigPausesFirst(rc, ctl) ==
    LET s0 == [original |-> NoOriginal, ctl |-> ctl]
        s1 == IF ~rc.thinking_pauses
              THEN [original |-> [s0.original EXCEPT !["thinking_pause_probability"] =
                                     Some(s0.ctl["thinking_pause_probability"])],
                    ctl |-> [s0.ctl EXCEPT !["thinking_pause_probability"] = 0]]
              ELSE s0
        s2 == Override(s1, "base_wpm", rc.base_wpm)
        s3 == Override(s2, "typo_probability", rc.typo_probability)
    IN  Override(s3, "thinking_pause_probability", rc.thinking_pause_probability)

\* _apply_session_config: the saved originals and the controller's new settings.
ApplySessionConfig(rc, ctl) ==
    LET s0 == [original |-> NoOriginal, ctl |-> ctl]
        s1 == Override(s0, "base_wpm", rc.base_wpm)
        s2 == Override(s1, "typo_probability", rc.typo_probability)
        s3 == Override(s2, "thinking_pause_probability", rc.thinking_pause_probability)
    IN  IF ~rc.thinking_pauses
        THEN [original |-> [s3.original EXCEPT !["thinking_pause_probability"] =
                               Some(s3.ctl["thinking_pause_probability"])],
              ctl |-> [s3.ctl EXCEPT !["thinking_pause_probability"] = 0]]
        ELSE s3

\* _restore_config: setattr for every key of the saved dictionary.
RestoreConfig(orig, ctl) ==
    [k \in ConfigKeys |-> IF orig[k] # None THEN Get(orig[k]) ELSE ctl[k]]

\* Variant: the attempts are never used up.
OpenExhaustedNever(made) == FALSE

\* Variant: one more attempt before giving up.
OpenExhaustedLate(made) == made >= FileOpenRetries + 2

\* _open_file_with_retry: `for attempt in range(retries + 1)` is used up.
OpenExhausted(made) == made >= FileOpenRetries + 1

\* Variant: an insert moves to its line whatever its content.
FirstCallWhateverContent(kind, len) ==
    IF kind = "delete" THEN Some("delete_lines") ELSE Some("goto_line")

\* _execute_operation: the first controller call of an operation; an insert
\* without content logs a warning and issues none.
FirstCall(kind, len) ==
    IF kind = "navigate" THEN Some("goto_line")
    ELSE IF kind = "delete" THEN Some("delete_lines")
    ELSE IF len = 0 THEN None
    ELSE Some("goto_line")

\* Variant: the pause between files does not look at thinking_pauses.
PauseBetweenFilesAlways(cur, rc) == cur # None

\* execute and _maybe_pause_between_files: the 1-3 s sleep before a file is
\* opened is taken when a file is open already and thinking pauses are on.
PauseBetweenFiles(cur, rc) == cur # None /\ rc.thinking_pauses

\* _should_pause_to_think: the probability compared with random.random(),
\* doubled after a boundary character, halved after an alphanumeric one.
EffectivePause(p0, boundary, alnum) ==
    LET p1 == IF boundary THEN p0 * 2 ELSE p0
    IN  IF alnum THEN p1 \div 2 ELSE p1

\* The positions at which the engine is executing an insert.
InsertPcs == {"dispatch", "tc_enter", "tc_loop", "tc_char"}
RequestPosition ==
    IF epc \in InsertPcs /\ op_kind = "insert" THEN "insert"
    ELSE IF epc = "file_check" THEN "file_boundary"
    ELSE IF epc = "op_check" THEN "op_boundary"
    ELSE "other"

\* History of one actuator call that moves, opens, deletes or saves.
CountCall ==
    /\ late_calls' = IF abort_seen THEN Min(late_calls + 1, 1) ELSE late_calls
    /\ fail_calls' = IF open_failed THEN Min(fail_calls + 1, 1) ELSE fail_calls

EngineIdle ==
    /\ epc = "off"
    /\ n_files = 0
    /\ replay_config = [base_wpm |-> None, typo_probability |-> None,
                        thinking_pause_probability |-> None, thinking_pauses |-> TRUE]
    /\ file_i = 0 /\ file_path = "" /\ n_ops = 0 /\ op_i = 0
    /\ op_kind = "" /\ op_len = 0 /\ char_i = 0 /\ attempts = 0
    /\ current_file = None
    /\ engine_abort = FALSE /\ vscode_abort = FALSE /\ input_abort = FALSE
    /\ base_wpm = DefaultWpm
    /\ typo_probability = DefaultTypoPct
    /\ thinking_pause_probability = DefaultPausePct
    /\ original = NoOriginal
    /\ outcome = "none"
    /\ pre_call = [k \in ConfigKeys |-> 0]
    /\ restore_ran = FALSE /\ aborts = 0 /\ req_at = "none" /\ late_chars = 0
    /\ abort_seen = FALSE /\ late_calls = 0 /\ cut_short = FALSE
    /\ open_failed = FALSE /\ fail_calls = 0
    /\ typing_resets = 0 /\ op_calls = <<>> /\ between_pause = FALSE

\* The engine and its controller before an execute call, and a session to
\* execute: as constructed, or with the abort flags and the current file an
\* earlier execute call left behind.
EngineInit ==
    /\ epc = "idle"
    /\ n_files \in 0..MaxFiles
    /\ replay_config \in ReplayConfigs
    /\ file_i = 0 /\ file_path = "" /\ n_ops = 0 /\ op_i = 0
    /\ op_kind = "" /\ op_len = 0 /\ char_i = 0 /\ attempts = 0
    /\ current_file \in {None} \cup {Some(p) : p \in Paths}
    /\ engine_abort \in BOOLEAN /\ vscode_abort \in BOOLEAN
    /\ input_abort \in BOOLEAN
    /\ base_wpm = DefaultWpm
    /\ typo_probability = DefaultTypoPct
    /\ thinking_pause_probability = DefaultPausePct
    /\ original = NoOriginal
    /\ outcome = "none"
    /\ pre_call = [k \in ConfigKeys |-> 0]
    /\ restore_ran = FALSE /\ aborts = 0 /\ req_at = "none" /\ late_chars = 0
    /\ abort_seen = FALSE /\ late_calls = 0 /\ cut_short = FALSE
    /\ open_failed = FALSE /\ fail_calls = 0
    /\ typing_resets = 0 /\ op_calls = <<>> /\ between_pause = FALSE

\* An exception leaves the try block of execute with the given outcome.
Raise(how) ==
    /\ outcome' = how
    /\ epc' = "finally"

\* execute, up to the try block: _reset_abort, _current_file = None,
\* reset_typing_state and _apply_session_config.
ExecuteStart ==
    /\ epc = "idle"
    /\ engine_abort' = FALSE
    /\ vscode_abort' = FALSE
    /\ input_abort' = FALSE
    /\ current_file' = None
    /\ pre_call' = Controller
    /\ LET st == ApplySessionConfig(replay_config, Controller)
       IN  /\ original' = st.original
           /\ base_wpm' = st.ctl["base_wpm"]
           /\ typo_probability' = st.ctl["typo_probability"]
           /\ thinking_pause_probability' = st.ctl["thinking_pause_probability"]
    /\ typing_resets' = typing_resets + 1
    /\ epc' = "file_check"
    /\ UNCHANGED <<sessVars, file_i, file_path, n_ops, op_i, op_kind, op_len,
                   char_i, attempts, outcome, restore_ran, aborts,
                   req_at, late_chars, abort_seen, late_calls, cut_short,
                   open_failed, fail_calls, op_calls>>
    /\ between_pause' = FALSE

\* Top of `for file_op in session.files`: the loop ends (return True), or
\* _check_abort, then the progress callback when the file has to be opened.
FileCheck ==
    /\ epc = "file_check"
    /\ \/ /\ file_i = n_files
          /\ Raise("true")
          /\ UNCHANGED <<file_path, n_ops, op_i, attempts, abort_seen,
                         between_pause>>
       \/ /\ file_i < n_files
          /\ engine_abort
          /\ Raise("abort")
          /\ abort_seen' = TRUE
          /\ UNCHANGED <<file_path, n_ops, op_i, attempts, between_pause>>
       \/ /\ file_i < n_files
          /\ ~engine_abort
          /\ \E p \in Paths, k \in 0..MaxOps, cb_ok \in BOOLEAN :
                /\ file_path' = p
                /\ n_ops' = k
                /\ op_i' = 0
                /\ attempts' = 0
                /\ IF Some(p) # current_file
                   THEN IF cb_ok
                        THEN /\ epc' = "open" /\ outcome' = outcome
                             /\ between_pause' =
                                   PauseBetweenFiles(current_file, replay_config)
                        ELSE Raise("error") /\ between_pause' = FALSE
                   ELSE /\ epc' = "op_check" /\ outcome' = outcome
                        /\ between_pause' = FALSE
          /\ UNCHANGED abort_seen
    /\ UNCHANGED <<sessVars, file_i, op_kind, op_len, char_i, current_file, flagVars, ctlVars, original,
                   pre_call, restore_ran, aborts, req_at, late_chars,
                   late_calls, cut_short, open_failed, fail_calls,
                   typing_resets, op_calls>>

\* One attempt of _open_file_with_retry: open_file returns True, returns
\* False or raises; after the last failed attempt execute raises FileOpenError.
OpenFile ==
    /\ epc = "open"
    /\ attempts' = attempts + 1
    /\ CountCall
    /\ \E r \in {"ok", "false", "raise"} :
          IF r = "ok"
          THEN /\ current_file' = Some(file_path)
               /\ epc' = "op_check"
               /\ between_pause' = FALSE
               /\ UNCHANGED <<outcome, open_failed>>
          ELSE IF OpenExhausted(attempts + 1)
               THEN /\ Raise("fileopen")
                    /\ open_failed' = TRUE
                    /\ UNCHANGED <<current_file, between_pause>>
               ELSE UNCHANGED <<epc, outcome, open_failed, current_file,
                                between_pause>>
    /\ UNCHANGED <<sessVars, file_i, file_path, n_ops, op_i, op_kind, op_len,
                   char_i, flagVars, ctlVars, original,
                   pre_call, restore_ran, aborts, req_at, late_chars,
                   abort_seen, cut_short, typing_resets, op_calls>>

\* Top of `for op in file_op.operations`: the loop ends, or _check_abort and
\* the progress callback.  The operations carry no typing_style, as those the
\* compiler writes; type_code with the override of a styled insert is TypeCode
\* of SpecTyping.
OpCheck ==
    /\ epc = "op_check"
    /\ \/ /\ op_i = n_ops
          /\ epc' = "save"
          /\ UNCHANGED <<outcome, op_kind, op_len, abort_seen>>
       \/ /\ op_i < n_ops
          /\ engine_abort
          /\ Raise("abort")
          /\ abort_seen' = TRUE
          /\ UNCHANGED <<op_kind, op_len>>
       \/ /\ op_i < n_ops
          /\ ~engine_abort
          /\ \E kind \in OpKinds, len \in 0..MaxChars, cb_ok \in BOOLEAN :
                /\ op_kind' = kind
                /\ op_len' = IF kind = "insert" THEN len ELSE 0
                /\ (kind # "insert" => len = 0)
                /\ IF cb_ok THEN epc' = "dispatch" /\ outcome' = outcome
                            ELSE Raise("error")
          /\ UNCHANGED abort_seen
    /\ op_calls' = IF op_i < n_ops /\ engine_abort THEN op_calls ELSE <<>>
    /\ UNCHANGED <<sessVars, file_i, file_path, n_ops, op_i, char_i, attempts,
                   current_file, flagVars, ctlVars, original, pre_call,
                   restore_ran, aborts, req_at, late_chars, late_calls,
                   cut_short, open_failed, fail_calls, typing_resets>>
    /\ UNCHANGED between_pause

\* _execute_operation: goto_line for a navigate, delete_lines for a delete;
\* for an insert nothing when the content is empty, else goto_line and on to
\* type_code.  The actuator call returns or raises.
Dispatch ==
    /\ epc = "dispatch"
    /\ IF FirstCall(op_kind, op_len) = None
       THEN /\ op_i' = op_i + 1
            /\ epc' = "op_check"
            /\ UNCHANGED <<outcome, late_calls, fail_calls, op_calls>>
       ELSE /\ CountCall
            /\ op_calls' = Append(op_calls, Get(FirstCall(op_kind, op_len)))
            /\ \E ok \in BOOLEAN :
                  IF ~ok THEN Raise("error") /\ UNCHANGED op_i
                  ELSE IF op_kind = "insert"
                       THEN epc' = "tc_enter" /\ UNCHANGED <<outcome, op_i>>
                       ELSE /\ op_i' = op_i + 1
                            /\ epc' = "op_check"
                            /\ UNCHANGED outcome
    /\ UNCHANGED <<sessVars, file_i, file_path, n_ops, op_kind, op_len, char_i,
                   attempts, current_file, flagVars, ctlVars,
                   original, pre_call, restore_ran, aborts,
                   req_at, late_chars, abort_seen, cut_short, open_failed,
                   typing_resets>>
    /\ UNCHANGED between_pause

\* type_code, up to its loop: _ensure_focused (may raise) and reset_abort.
TypeCodeEnter ==
    /\ epc = "tc_enter"
    /\ op_calls' = Append(op_calls, "type_code")
    /\ \E ok \in BOOLEAN :
          IF ok
          THEN /\ vscode_abort' = FALSE
               /\ input_abort' = FALSE
               /\ char_i' = 0
               /\ epc' = "tc_loop"
               /\ UNCHANGED outcome
          ELSE /\ Raise("error")
               /\ UNCHANGED <<vscode_abort, input_abort, char_i>>
    /\ UNCHANGED <<sessVars, file_i, file_path, n_ops, op_i, op_kind, op_len,
                   attempts, current_file, engine_abort, ctlVars,
                   original, pre_call, restore_ran, aborts,
                   req_at, late_chars, abort_seen, late_calls, cut_short,
                   open_failed, fail_calls, typing_resets>>
    /\ UNCHANGED between_pause

\* Top of `for i, char in enumerate(text)`: the text is used up (return
\* True), the abort flag is set (return False), or the next character.
TypeLoop ==
    /\ epc = "tc_loop"
    /\ \/ /\ char_i = op_len
          /\ op_i' = op_i + 1
          /\ epc' = "op_check"
          /\ UNCHANGED <<cut_short, abort_seen>>
       \/ /\ char_i < op_len
          /\ vscode_abort
          /\ op_i' = op_i + 1
          /\ epc' = "op_check"
          /\ cut_short' = TRUE
          /\ abort_seen' = TRUE
       \/ /\ char_i < op_len
          /\ ~vscode_abort
          /\ epc' = "tc_char"
          /\ UNCHANGED <<op_i, cut_short, abort_seen>>
    /\ UNCHANGED <<sessVars, file_i, file_path, n_ops, op_kind, op_len, char_i,
                   attempts, current_file, flagVars, ctlVars, original, outcome,
                   pre_call, restore_ran, aborts, req_at, late_chars,
                   late_calls, open_failed, fail_calls, typing_resets,
                   op_calls>>
    /\ UNCHANGED between_pause

\* The rest of one loop iteration: the waits, then the character (with or
\* without an injected typo) through _type_single_char; type_text clears the
\* backend's abort flag.  An actuator call may raise.
TypeChar ==
    /\ epc = "tc_char"
    /\ fail_calls' = IF open_failed THEN Min(fail_calls + 1, 1) ELSE fail_calls
    /\ \E ok \in BOOLEAN, char \in CharClasses, typo \in BOOLEAN :
          /\ (typo => char = "alnum")
          /\ input_abort' = IF typo \/ char # "newline" THEN FALSE
                            ELSE input_abort
          /\ IF ok
             THEN /\ char_i' = char_i + 1
                  /\ late_chars' = IF aborts > 0 THEN Min(late_chars + 1, 2)
                                   ELSE late_chars
                  /\ epc' = "tc_loop"
                  /\ UNCHANGED outcome
             ELSE /\ Raise("error")
                  /\ UNCHANGED <<char_i, late_chars>>
    /\ UNCHANGED <<sessVars, file_i, file_path, n_ops, op_i, op_kind, op_len,
                   attempts, current_file, engine_abort, vscode_abort,
                   ctlVars, original, pre_call, restore_ran, aborts, req_at,
                   abort_seen, late_calls, cut_short, open_failed,
                   typing_resets, op_calls>>
    /\ UNCHANGED between_pause

\* save_file after the operations of the file; the loop goes to the next file.
SaveFile ==
    /\ epc = "save"
    /\ CountCall
    /\ \E ok \in BOOLEAN :
          IF ok THEN /\ file_i' = file_i + 1
                     /\ epc' = "file_check"
                     /\ UNCHANGED outcome
                ELSE Raise("error") /\ UNCHANGED file_i
    /\ UNCHANGED <<sessVars, file_path, n_ops, op_i, op_kind, op_len, char_i,
                   attempts, current_file, flagVars, ctlVars,
                   original, pre_call, restore_ran, aborts,
                   req_at, late_chars, abort_seen, cut_short, open_failed,
                   typing_resets, op_calls>>
    /\ UNCHANGED between_pause

\* The finally block of execute: _restore_config(original_config).
Finally ==
    /\ epc = "finally"
    /\ LET ctl == RestoreConfig(original, Controller)
       IN  /\ base_wpm' = ctl["base_wpm"]
           /\ typo_probability' = ctl["typo_probability"]
           /\ thinking_pause_probability' = ctl["thinking_pause_probability"]
    /\ restore_ran' = TRUE
    /\ epc' = "done"
    /\ UNCHANGED <<sessVars, posVars, flagVars, original, outcome,
                   pre_call, aborts, req_at, late_chars, abort_seen, late_calls,
                   cut_short, open_failed, fail_calls, typing_resets,
                   op_calls>>
    /\ UNCHANGED between_pause

\* ReplayEngine.request_abort, called from a signal handler while execute
\* runs: the engine's flag, the controller's and the backend's are set.
RequestAbort ==
    /\ epc \notin {"off", "idle", "done"}
    /\ aborts < MaxAborts
    /\ engine_abort' = TRUE
    /\ vscode_abort' = TRUE
    /\ input_abort' = TRUE
    /\ aborts' = aborts + 1
    /\ req_at' = IF aborts = 0 THEN RequestPosition ELSE req_at
    /\ UNCHANGED <<epc, sessVars, posVars, ctlVars, original,
                   outcome, pre_call, restore_ran, late_chars, abort_seen,
                   late_calls, cut_short, open_failed, fail_calls,
                   typing_resets, op_calls>>
    /\ UNCHANGED between_pause

\* ----------------------------------------------------------------- SpecOrch
MaxConsecutiveFailures == 3     \* SessionOrchestrator.max_consecutive_failures (default)

ExecResults == {"true", "false", "abort", "vscode", "error"}

\* A session file is known by its number, which stands for its name stem;
\* the session_id stored inside it is that stem or 0, an id that is no
\* file's stem.
StoredIds(k) == {0, k}

\* Variant: the flag is cleared only when clock_out returned.
ClockedInAfterClockOutIfReturned(raised) == raised

\* `finally: self._is_clocked_in = False` after the guaranteed clock_out.
ClockedInAfterClockOut(raised) == FALSE

\* find_pending_sessions: the session files whose id is not in the processed
\* set, sorted by name.
RECURSIVE PendingFrom(_, _, _)
PendingFrom(k, n, done) ==
    IF k > n THEN <<>>
    ELSE IF k \in done THEN PendingFrom(k + 1, n, done)
    ELSE <<k>> \o PendingFrom(k + 1, n, done)

\* Variant: process_session starts the session whatever the flag says.
SkipOnShutdownNever(flag) == FALSE

\* `if self._shutdown_requested: return False` before clocking in.
SkipOnShutdown(flag) == flag

\* process_session marks session.session_id, the id stored in the file.
MarkedId(k) == session_id_of[k]

OrchIdle ==
    /\ opc = "off"
    /\ session_files = 0
    /\ shutdown_requested = FALSE
    /\ is_clocked_in = FALSE
    /\ consecutive_failures = 0
    /\ processed_sessions = {}
    /\ processed_file = {}
    /\ pending = <<>>
    /\ pend_i = 0
    /\ processed_count = 0
    /\ current_session = None
    /\ exec_result = "none" /\ replay_cut = FALSE
    /\ started = FALSE /\ clock_outs = 0 /\ ret = "none"
    /\ replay_engine = FALSE /\ o_abort = FALSE
    /\ signal_at = "none" /\ replay_late = FALSE
    /\ session_id_of = <<>> /\ completed = {}

\* SessionOrchestrator.__init__, and the session files of the replay directory.
OrchInit ==
    /\ opc = "poll"
    /\ session_files \in 0..MaxSessions
    /\ shutdown_requested = FALSE
    /\ is_clocked_in = FALSE
    /\ consecutive_failures = 0
    /\ processed_sessions = {}
    /\ processed_file = {}
    /\ pending = <<>>
    /\ pend_i = 0
    /\ processed_count = 0
    /\ current_session = None
    /\ exec_result = "none" /\ replay_cut = FALSE
    /\ started = FALSE /\ clock_outs = 0 /\ ret = "none"
    /\ replay_engine = FALSE /\ o_abort = FALSE
    /\ signal_at = "none" /\ replay_late = FALSE
    /\ session_id_of \in {f \in [1..session_files -> 0..MaxSessions] :
                            \A k \in 1..session_files : f[k] \in StoredIds(k)}
    /\ completed = {}

\* process_session returns: the outer `finally` clears _current_session.
Return(value) ==
    /\ ret' = value
    /\ current_session' = None
    /\ opc' = "after"

\* The outer `except Exception` of process_session: clock out when the flag
\* says the tracker is running, then return False.
UnexpectedError ==
    /\ clock_outs' = IF is_clocked_in THEN clock_outs + 1 ELSE clock_outs
    /\ is_clocked_in' = FALSE
    /\ Return("false")

\* run_once up to its loop: shutdown check, pull_latest (a GitSyncError is
\* logged), find_pending_sessions (reloads the processed set from its file).
RunOnce ==
    /\ opc = "poll"
    /\ processed_count' = 0
    /\ IF shutdown_requested
       THEN /\ opc' = "sleep"
            /\ UNCHANGED <<processed_sessions, pending, pend_i>>
       ELSE \E loaded \in {processed_file, {}} :
               /\ processed_sessions' = loaded
               /\ pending' = PendingFrom(1, session_files, loaded)
               /\ pend_i' = 0
               /\ opc' = IF pending' = <<>> THEN "sleep" ELSE "loop"
    /\ UNCHANGED <<session_files, shutdown_requested, is_clocked_in,
                   consecutive_failures, processed_file, current_session,
                   exec_result, replay_cut, started, clock_outs, ret>>
    /\ UNCHANGED <<replay_engine, o_abort, signal_at, replay_late,
                   session_id_of, completed>>

\* Top of `for session_path in pending`: the loop ends, breaks on shutdown,
\* or calls process_session (whose first line gets the Upwork controller).
NextSession ==
    /\ opc = "loop"
    /\ IF pend_i = Len(pending) \/ shutdown_requested
       THEN /\ opc' = "sleep"
            /\ UNCHANGED <<started, clock_outs, ret, exec_result, replay_cut>>
       ELSE /\ started' = FALSE
            /\ clock_outs' = 0
            /\ ret' = "none"
            /\ exec_result' = "none"
            /\ replay_cut' = FALSE
            /\ \E ok \in BOOLEAN : opc' = IF ok THEN "load" ELSE "crashed"
    /\ UNCHANGED <<session_files, shutdown_requested, is_clocked_in,
                   consecutive_failures, processed_sessions, processed_file,
                   pending, pend_i, processed_count, current_session>>
    /\ UNCHANGED <<replay_engine, o_abort, signal_at, replay_late,
                   session_id_of, completed>>

\* process_session: load_session and the shutdown check before clocking in.
LoadSession ==
    /\ opc = "load"
    /\ \E r \in {"ok", "load_error", "error"} :
          IF r = "ok"
          THEN IF SkipOnShutdown(shutdown_requested)
               THEN Return("false") /\ UNCHANGED <<clock_outs, is_clocked_in>>
               ELSE /\ current_session' = Some(pending[pend_i + 1])
                    /\ opc' = "clock_in"
                    /\ UNCHANGED <<ret, clock_outs, is_clocked_in>>
          ELSE IF r = "load_error"
               THEN Return("false") /\ UNCHANGED <<clock_outs, is_clocked_in>>
               ELSE UnexpectedError
    /\ UNCHANGED <<session_files, shutdown_requested, consecutive_failures,
                   processed_sessions, processed_file, pending, pend_i,
                   processed_count, exec_result, replay_cut, started>>
    /\ UNCHANGED <<replay_engine, o_abort, signal_at, replay_late,
                   session_id_of, completed>>

\* process_session: upwork.start_session returns True or False, or raises.
StartSession ==
    /\ opc = "clock_in"
    /\ \E r \in {"true", "false", "upwork_not_found", "error"} :
          IF r = "true"
          THEN /\ is_clocked_in' = TRUE
               /\ started' = TRUE
               /\ opc' = "replay"
               /\ UNCHANGED <<ret, current_session, clock_outs>>
          ELSE IF r = "false"
               THEN Return("false") /\ UNCHANGED <<is_clocked_in, started, clock_outs>>
               ELSE IF r = "upwork_not_found"
                    THEN /\ is_clocked_in' = FALSE
                         /\ Return("false")
                         /\ UNCHANGED <<started, clock_outs>>
                    ELSE UnexpectedError /\ UNCHANGED started
    /\ UNCHANGED <<session_files, shutdown_requested, consecutive_failures,
                   processed_sessions, processed_file, pending, pend_i,
                   processed_count, exec_result, replay_cut>>
    /\ UNCHANGED <<replay_engine, o_abort, signal_at, replay_late,
                   session_id_of, completed>>

\* The inner try block up to the loop of execute: _get_replay_engine makes
\* the engine on first use (or raises), and execute starts with _reset_abort.
Replay ==
    /\ opc = "replay"
    /\ \E made \in BOOLEAN :
          IF made \/ replay_engine
          THEN /\ replay_engine' = TRUE
               /\ o_abort' = FALSE
               /\ opc' = "executing"
               /\ UNCHANGED exec_result
          ELSE /\ exec_result' = "error"
               /\ opc' = "clock_out"
               /\ UNCHANGED <<replay_engine, o_abort>>
    /\ UNCHANGED <<session_files, shutdown_requested, is_clocked_in,
                   consecutive_failures, processed_sessions, processed_file,
                   pending, pend_i, processed_count, current_session, started,
                   clock_outs, ret, replay_cut, signal_at, replay_late,
                   session_id_of, completed>>

\* execute returns True or False or raises AbortRequested,
\* VSCodeNotFoundError or something else.  AbortRequested needs the abort
\* flag; with the flag set execute still returns True when the request came
\* after its last check, or when only the typing of the last insert was
\* stopped (SuccessMeansComplete).
ExecuteReturns ==
    /\ opc = "executing"
    /\ \E r \in ExecResults, cut \in BOOLEAN, late \in BOOLEAN :
          /\ r = "abort" => o_abort
          /\ (cut \/ late) => (o_abort /\ r = "true")
          /\ (o_abort /\ r = "true") => (cut # late)
          /\ exec_result' = r
          /\ replay_cut' = cut
          /\ replay_late' = late
    /\ opc' = "clock_out"
    /\ UNCHANGED <<session_files, shutdown_requested, is_clocked_in,
                   consecutive_failures, processed_sessions, processed_file,
                   pending, pend_i, processed_count, current_session, started,
                   clock_outs, ret, replay_engine, o_abort, signal_at,
                   session_id_of, completed>>

\* The inner `finally`: upwork.clock_out() returns or raises; then the
\* pending `return False`, or on to marking the session.
ClockOut ==
    /\ opc = "clock_out"
    /\ clock_outs' = clock_outs + 1
    /\ \E raised \in BOOLEAN : is_clocked_in' = ClockedInAfterClockOut(raised)
    /\ IF exec_result = "true"
       THEN opc' = "mark" /\ UNCHANGED <<ret, current_session>>
       ELSE Return("false")
    /\ UNCHANGED <<session_files, shutdown_requested, consecutive_failures,
                   processed_sessions, processed_file, pending, pend_i,
                   processed_count, exec_result, replay_cut, started>>
    /\ UNCHANGED <<replay_engine, o_abort, signal_at, replay_late,
                   session_id_of, completed>>

\* _mark_session_processed and the success return: the id is added in
\* memory, then mkdir may raise, then the append succeeds or its IOError is
\* logged.
MarkProcessed ==
    /\ opc = "mark"
    /\ processed_sessions' = processed_sessions \cup {MarkedId(Get(current_session))}
    /\ \E r \in {"ok", "io_error", "raise"} :
          IF r = "raise"
          THEN /\ UnexpectedError
               /\ UNCHANGED <<processed_file, consecutive_failures, completed>>
          ELSE /\ processed_file' =
                     IF r = "ok"
                     THEN processed_file \cup {MarkedId(Get(current_session))}
                     ELSE processed_file
               /\ consecutive_failures' = 0
               /\ completed' = completed \cup current_session
               /\ Return("true")
               /\ UNCHANGED <<clock_outs, is_clocked_in>>
    /\ UNCHANGED <<session_files, shutdown_requested, pending, pend_i,
                   processed_count, exec_result, replay_cut, started>>
    /\ UNCHANGED <<replay_engine, o_abort, signal_at, replay_late,
                   session_id_of>>

\* run_once after process_session returned: the counters, and the pause
\* after too many consecutive failures.
AfterSession ==
    /\ opc = "after"
    /\ IF ret = "true"
       THEN /\ processed_count' = processed_count + 1
            /\ consecutive_failures' = 0
       ELSE /\ consecutive_failures' =
                  IF consecutive_failures + 1 >= MaxConsecutiveFailures THEN 0
                  ELSE consecutive_failures + 1
            /\ UNCHANGED processed_count
    /\ pend_i' = pend_i + 1
    /\ opc' = "loop"
    /\ UNCHANGED <<session_files, shutdown_requested, is_clocked_in,
                   processed_sessions, processed_file, pending,
                   current_session, exec_result, replay_cut, started, clock_outs, ret>>
    /\ UNCHANGED <<replay_engine, o_abort, signal_at, replay_late,
                   session_id_of, completed>>

\* run_daemon between polls: the next run_once, or on shutdown the final
\* clean-up and the end of the daemon.
DaemonLoop ==
    /\ opc = "sleep"
    /\ IF shutdown_requested
       THEN /\ is_clocked_in' = FALSE
            /\ opc' = "stopped"
       ELSE /\ opc' = "poll"
            /\ UNCHANGED is_clocked_in
    /\ UNCHANGED <<session_files, shutdown_requested, consecutive_failures,
                   processed_sessions, processed_file, pending, pend_i,
                   processed_count, current_session, exec_result, replay_cut, started,
                   clock_outs, ret>>
    /\ UNCHANGED <<replay_engine, o_abort, signal_at, replay_late,
                   session_id_of, completed>>

\* _signal_handler (SIGTERM, SIGINT): the shutdown flag, and request_abort
\* on the replay engine when there is one.
SignalHandler ==
    /\ opc \notin {"off", "stopped", "crashed"}
    /\ ~shutdown_requested
    /\ shutdown_requested' = TRUE
    /\ o_abort' = IF replay_engine THEN TRUE ELSE o_abort
    /\ signal_at' = opc
    /\ UNCHANGED <<opc, session_files, is_clocked_in, consecutive_failures,
                   processed_sessions, processed_file, pending, pend_i,
                   processed_count, current_session, exec_result, replay_cut, started,
                   clock_outs, ret, replay_engine, replay_late,
                   session_id_of, completed>>

\* ---------------------------------------------------------------- SpecParse
\* PatchedFile.path values, and what _process_patched_file makes of them
\* (`if path.startswith('b/'): path = path[2:]`).
PatchPaths == {"b/a.py", "c.py"}
NormPath(p) == IF p = "b/a.py" THEN "a.py" ELSE p

\* Python's order of the normalised paths: "a.py" < "c.py".
PathBefore(p, q) == p = "a.py" /\ q = "c.py"

\* Kinds of file sections: is_binary_file, is_removed_file, is_added_file.
FileKinds == {"ordinary", "added", "binary", "removed", "binary_removed"}

\* The hunks of a file section as _process_hunk's two buffers.
SampleHunks ==
    << [removed |-> <<<<1, LineText(1)>>>>, added |-> <<>>],
       [removed |-> <<<<3, LineText(3)>>>>,
        added |-> <<<<2, LineText(5)>>, <<3, LineText(6)>>>>] >>
Bodies == {<<>>, SampleHunks}

FileSections ==
    {f \in [path : PatchPaths, kind : FileKinds, hunks : Bodies] :
        f.kind \in {"binary", "removed", "binary_removed"} => f.hunks = <<>>}

\* Diff texts: the file sections, what else the text holds ("ws": only
\* whitespace, "junk": lines the tokenizer ignores, "bad_hunk": a hunk
\* PatchSet rejects).
DiffTexts ==
    {d \in [files : UNION {[1..n -> FileSections] : n \in 0..MaxPatchFiles},
            extra : {"none", "ws", "junk", "bad_hunk"}] :
        d.extra \in {"ws", "junk"} => d.files = <<>>}

\* `not diff_text.strip()`
Blank(d) == d.files = <<>> /\ d.extra \in {"none", "ws"}

\* Variant: the tokenizer's error is swallowed.
UntokenizableIgnored(d) == FALSE

\* PatchSet(diff_text) raises.
Untokenizable(d) == d.extra = "bad_hunk"

\* Variant: only binary files are skipped.
SkipWarningBinaryOnly(f) ==
    IF f.kind \in {"binary", "binary_removed"}
    THEN Some([what |-> "binary", path |-> NormPath(f.path)])
    ELSE None

\* The warning _process_patched_file records when it skips the file (binary
\* is tested first), None when the file is compiled.
SkipWarning(f) ==
    IF f.kind \in {"binary", "binary_removed"}
    THEN Some([what |-> "binary", path |-> NormPath(f.path)])
    ELSE IF f.kind = "removed"
         THEN Some([what |-> "deleted", path |-> NormPath(f.path)])
         ELSE None

RECURSIVE HunkLoop(_, _, _)
\* `for hunk in patched_file: changes.operations.extend(_process_hunk(...))`
HunkLoop(hunks, k, new_file) ==
    IF k > Len(hunks) THEN <<>>
    ELSE HunkOperations(hunks[k].removed, hunks[k].added, new_file)
         \o HunkLoop(hunks, k + 1, new_file)

\* The FileChanges _process_patched_file returns for a file it compiles.
FileChangesOf(f) ==
    [path |-> NormPath(f.path), is_new |-> (f.kind = "added"),
     operations |-> HunkLoop(f.hunks, 1, f.kind = "added")]

RECURSIVE SortByPath(_)
\* result.sort(key=lambda x: x.path): stable, ascending.
SortByPath(list) ==
    IF list = <<>> THEN <<>>
    ELSE LET rest == SortByPath(SubSeq(list, 1, Len(list) - 1))
             x == list[Len(list)]
             keep == Cardinality({i \in 1..Len(rest) : ~PathBefore(x.path, rest[i].path)})
         IN  SubSeq(rest, 1, keep) \o <<x>> \o SubSeq(rest, keep + 1, Len(rest))

\* Variant: the warnings of earlier calls are kept.
ClearedWarningsKept(old) == old

\* clear_warnings at the start of parse_diff_text.
ClearedWarnings(old) == <<>>

ParseIdle ==
    /\ ppc = "off"
    /\ diff_text = [files |-> <<>>, extra |-> "none"]
    /\ file_k = 0
    /\ result = <<>>
    /\ warnings = <<>>
    /\ returned = None
    /\ parse_error = None
    /\ calls = 0
    /\ first_returned = None
    /\ first_warnings = <<>>
    /\ first_error = None

\* A DiffParser as constructed, and the diff text handed to it.
ParseInit ==
    /\ ppc = "ready"
    /\ diff_text \in DiffTexts
    /\ file_k = 0
    /\ result = <<>>
    /\ warnings = <<>>
    /\ returned = None
    /\ parse_error = None
    /\ calls = 0
    /\ first_returned = None
    /\ first_warnings = <<>>
    /\ first_error = None

\* parse_diff_text up to _process_patch_set: clear_warnings, the blank test,
\* PatchSet(diff_text).
ParseDiffText ==
    /\ ppc = "ready"
    /\ calls' = calls + 1
    /\ warnings' = ClearedWarnings(warnings)
    /\ file_k' = 0
    /\ result' = <<>>
    /\ IF Blank(diff_text)
       THEN /\ returned' = Some(<<>>)
            /\ parse_error' = None
            /\ ppc' = "returned"
       ELSE IF Untokenizable(diff_text)
            THEN /\ returned' = None
                 /\ parse_error' = Some([error |-> "DiffParseError", cause |-> "PatchSet"])
                 /\ ppc' = "returned"
            ELSE /\ returned' = None
                 /\ parse_error' = None
                 /\ ppc' = "files"
    /\ UNCHANGED <<diff_text, first_returned, first_warnings, first_error>>

\* One iteration of `for patched_file in patch_set`.
ProcessPatchedFile ==
    /\ ppc = "files"
    /\ file_k < Len(diff_text.files)
    /\ LET f == diff_text.files[file_k + 1]
       IN  IF SkipWarning(f) # None
           THEN /\ warnings' = Append(warnings, Get(SkipWarning(f)))
                /\ UNCHANGED result
           ELSE /\ result' = Append(result, FileChangesOf(f))
                /\ UNCHANGED warnings
    /\ file_k' = file_k + 1
    /\ UNCHANGED <<ppc, diff_text, returned, parse_error, calls, first_returned,
                   first_warnings, first_error>>

\* The end of _process_patch_set: sort by path and return.
ReturnResult ==
    /\ ppc = "files"
    /\ file_k = Len(diff_text.files)
    /\ returned' = Some(SortByPath(result))
    /\ ppc' = "returned"
    /\ UNCHANGED <<diff_text, file_k, result, warnings, parse_error, calls,
                   first_returned, first_warnings, first_error>>

\* The same text is handed to the same parser once more.
ParseAgain ==
    /\ ppc = "returned"
    /\ calls < MaxCalls
    /\ first_returned' = IF calls = 1 THEN returned ELSE first_returned
    /\ first_warnings' = IF calls = 1 THEN warnings ELSE first_warnings
    /\ first_error' = IF calls = 1 THEN parse_error ELSE first_error
    /\ ppc' = "ready"
    /\ UNCHANGED <<diff_text, file_k, result, warnings, returned, parse_error, calls>>

\* ------------------------------------------------------------- SpecValidate
\* One session dictionary, read by SessionBuilder.validate_session and by
\* ReplaySession.from_dict side by side, element by element in document order.

\* JSON values a dictionary may hold under "line" and "line_end".
JAbsent == [kind |-> "absent", v |-> 0]
JString == [kind |-> "str", v |-> 0]
JInt(n) == [kind |-> "int", v |-> n]
IsInt(x) == x.kind = "int"

\* The session dictionary without its files.
Headers ==
    [session_id : {"absent", "empty", "ok"},
     contract_id : {"absent", "empty", "ok"},
     memo : {"absent", "ok"},
     files : {"absent", "nonlist", "list"}]
RequiredFields == {"session_id", "contract_id", "memo", "files"}

\* One element of "files": a dictionary or something else.
FileEntries ==
    [dict : BOOLEAN, path : {"ok", "bad"}, operations : {"list", "nonlist"}]

\* One element of "operations": a dictionary or something else.
OpDicts ==
    [dict : BOOLEAN,
     type : {"absent", "bogus"} \cup OpKinds,
     line : {JAbsent, JString, JInt(0), JInt(1), JInt(2)},
     line_end : {JAbsent, JString, JInt(1), JInt(2)},
     content : {None, Some(LineText(1))}]

\* validate_session before the loop over files: the entries it appends.
ValidateSessionHeader(h) ==
    LET req(f) == IF h[f] = "absent" THEN <<"required">> ELSE <<>>
    IN  req("session_id") \o req("contract_id") \o req("memo") \o req("files")
        \o (IF h.session_id # "ok" THEN <<"session_id">> ELSE <<>>)
        \o (IF h.files = "nonlist" THEN <<"files">> ELSE <<>>)

\* ReplaySession.from_dict before the loop over files: TRUE when nothing is raised.
SessionHeaderFromDict(h) ==
    /\ \A f \in RequiredFields : h[f] # "absent"
    /\ h.session_id = "ok"
    /\ h.contract_id = "ok"
    /\ h.files = "list"

\* _validate_file_entry without its loop over operations.
ValidateFileEntry(fe) ==
    IF ~fe.dict THEN <<"object">>
    ELSE (IF fe.path # "ok" THEN <<"path">> ELSE <<>>)
         \o (IF fe.operations # "list" THEN <<"operations">> ELSE <<>>)

\* FileOperation.from_dict without its loop over operations: data.get fails
\* on anything that is not a dictionary.
FileOperationFromDict(fe) ==
    IF ~fe.dict THEN "crash"
    ELSE IF fe.path # "ok" \/ fe.operations # "list" THEN "invalid"
    ELSE "ok"

\* _validate_operation: the entries appended, or the TypeError of comparing
\* an integer line_end with a line that is no integer.
ValidateOperation(op) ==
    IF ~op.dict THEN [errors |-> <<"object">>, raised |-> FALSE]
    ELSE
    LET e_type == IF op.type \notin OpKinds THEN <<"type">> ELSE <<>>
        e_line == IF ~IsInt(op.line) \/ op.line.v < 1 THEN <<"line">> ELSE <<>>
        compared == op.line_end # JAbsent /\ IsInt(op.line_end)
        e_end == IF op.line_end = JAbsent THEN <<>>
                 ELSE IF ~IsInt(op.line_end) THEN <<"line_end">>
                 ELSE IF IsInt(op.line) /\ op.line_end.v < op.line.v
                      THEN <<"line_end">> ELSE <<>>
        e_content == IF op.type = "insert" /\ op.content = None
                     THEN <<"content">> ELSE <<>>
    IN  IF compared /\ ~IsInt(op.line)
        THEN [errors |-> e_type \o e_line, raised |-> TRUE]
        ELSE [errors |-> e_type \o e_line \o e_end \o e_content, raised |-> FALSE]

\* Variant: OperationType(...) accepts any value that is present.
OperationTypeAnyValue(t) == IF t # "absent" THEN Some(t) ELSE None

\* OperationType(data['type']) inside the try block: the member, or nothing
\* when KeyError or ValueError is caught.
OperationType(t) == IF t \in OpKinds THEN Some(t) ELSE None

\* Operation.from_dict: the Operation built, SessionValidationError
\* ("invalid"), or the TypeError of data['type'] on a non-dictionary ("crash").
OperationFromDict(op) ==
    IF ~op.dict THEN [status |-> "crash", op |-> None]
    ELSE IF OperationType(op.type) = None THEN [status |-> "invalid", op |-> None]
    ELSE IF ~IsInt(op.line) \/ op.line.v < 1 THEN [status |-> "invalid", op |-> None]
    ELSE IF op.line_end # JAbsent /\ (~IsInt(op.line_end) \/ op.line_end.v < op.line.v)
         THEN [status |-> "invalid", op |-> None]
    ELSE IF Get(OperationType(op.type)) = "insert" /\ op.content = None
         THEN [status |-> "invalid", op |-> None]
    ELSE [status |-> "ok",
          op |-> Some([op_type |-> Get(OperationType(op.type)),
                       line |-> op.line.v,
                       line_end |-> IF op.line_end = JAbsent THEN None
                                    ELSE Some(op.line_end.v),
                       content |-> op.content])]

\* _execute_operation: the branch of the if/elif/else chain taken.
ExecuteOperationBranch(kind) ==
    IF kind = "navigate" THEN "_execute_navigate"
    ELSE IF kind = "delete" THEN "_execute_delete"
    ELSE IF kind = "insert" THEN "_execute_insert"
    ELSE "unknown"

\* The rules of the session format an element breaks, as both readers state
\* them in their messages.
HeaderBroken(h) ==
    \/ \E f \in RequiredFields : h[f] = "absent"
    \/ h.session_id # "ok"
    \/ h.files = "nonlist"
FileEntryBroken(fe) == ~fe.dict \/ fe.path # "ok" \/ fe.operations # "list"
OperationBroken(op) ==
    \/ ~op.dict
    \/ op.type \notin OpKinds
    \/ ~IsInt(op.line) \/ op.line.v < 1
    \/ op.line_end # JAbsent /\ ~IsInt(op.line_end)
    \/ op.line_end # JAbsent /\ IsInt(op.line_end) /\ IsInt(op.line)
         /\ op.line_end.v < op.line.v
    \/ op.type = "insert" /\ op.content = None

\* Position of an element in document order: <<0, 0>> is the session itself,
\* <<i, 0>> the i-th file entry, <<i, j>> its j-th operation.
FromDictRunning == fd_status = "running"
ReadersStopped == v_raised /\ ~FromDictRunning

\* What one element does to ReplaySession.from_dict: nothing once it raised.
FromDictStep(status, pos) ==
    IF ~FromDictRunning THEN UNCHANGED <<fd_status, fd_at>>
    ELSE /\ fd_status' = CASE status = "ok" -> "running"
                           [] status = "invalid" -> "raised"
                           [] OTHER -> "crashed"
         /\ fd_at' = IF status = "ok" THEN fd_at ELSE Some(pos)

\* What one element does to validate_session: nothing once it raised.
ValidateStep(entries, raised) ==
    IF v_raised THEN UNCHANGED <<errors, v_raised>>
    ELSE /\ errors' = Min(errors + Len(entries), MaxErrors)
         /\ v_raised' = raised

\* The first element that breaks a rule.
BrokenStep(broken, pos) ==
    first_bad' = IF first_bad = None /\ broken THEN Some(pos) ELSE first_bad

ValidateIdle ==
    /\ vpc = "off"
    /\ v_file_i = 0 /\ v_op_i = 0 /\ cur_op = None
    /\ errors = 0 /\ v_raised = FALSE
    /\ fd_status = "running" /\ fd_at = None /\ first_bad = None
    /\ built_kinds = {} /\ content_kept = FALSE /\ content_passed = FALSE
    /\ unknown_seen = FALSE /\ dispatched = {}

\* validate_session and ReplaySession.from_dict are about to read a dictionary.
ValidateInit ==
    /\ vpc = "start"
    /\ v_file_i = 0 /\ v_op_i = 0 /\ cur_op = None
    /\ errors = 0 /\ v_raised = FALSE
    /\ fd_status = "running" /\ fd_at = None /\ first_bad = None
    /\ built_kinds = {} /\ content_kept = FALSE /\ content_passed = FALSE
    /\ unknown_seen = FALSE /\ dispatched = {}

\* Both readers up to their loop over the files; the loops have nothing to
\* go through when "files" is no list.
ReadSession ==
    /\ vpc = "start"
    /\ \E h \in Headers :
         /\ ValidateStep(ValidateSessionHeader(h), FALSE)
         /\ FromDictStep(IF SessionHeaderFromDict(h) THEN "ok" ELSE "invalid", <<0, 0>>)
         /\ BrokenStep(HeaderBroken(h), <<0, 0>>)
         /\ vpc' = IF h.files = "list" THEN "file" ELSE "files_end"
    /\ UNCHANGED <<v_file_i, v_op_i, cur_op, built_kinds, content_kept,
                   content_passed, unknown_seen, dispatched>>

\* One iteration of both loops over the files, up to the loop over the
\* operations; that loop has nothing to go through when the entry is no
\* dictionary or its "operations" is no list.
ReadFileEntry ==
    /\ vpc = "file"
    /\ v_file_i < MaxFiles
    /\ ~ReadersStopped
    /\ \E fe \in FileEntries :
         /\ ~fe.dict => fe.path = "ok" /\ fe.operations = "list"
         /\ ValidateStep(ValidateFileEntry(fe), FALSE)
         /\ FromDictStep(FileOperationFromDict(fe), <<v_file_i + 1, 0>>)
         /\ BrokenStep(FileEntryBroken(fe), <<v_file_i + 1, 0>>)
         /\ vpc' = IF fe.dict /\ fe.operations = "list" THEN "op" ELSE "file"
    /\ v_file_i' = v_file_i + 1
    /\ v_op_i' = 0
    /\ cur_op' = None
    /\ UNCHANGED <<built_kinds, content_kept, content_passed, unknown_seen,
                   dispatched>>

\* The body of one iteration of both loops over the operations of the file.
ReadOperation ==
    /\ vpc = "op"
    /\ v_op_i < MaxOps
    /\ ~ReadersStopped
    /\ \E op \in OpDicts :
         /\ ~op.dict => op = [dict |-> FALSE, type |-> "absent", line |-> JAbsent,
                              line_end |-> JAbsent, content |-> None]
         /\ cur_op' = Some(op)
         /\ ValidateStep(ValidateOperation(op).errors, ValidateOperation(op).raised)
         /\ FromDictStep(OperationFromDict(op).status, <<v_file_i, v_op_i + 1>>)
         /\ BrokenStep(OperationBroken(op), <<v_file_i, v_op_i + 1>>)
         /\ unknown_seen' = (unknown_seen \/ (op.dict /\ op.type \notin OpKinds))
         /\ content_passed' =
              (content_passed \/ (~v_raised /\ op.dict
                                    /\ ValidateOperation(op).errors = <<>>
                                    /\ ~ValidateOperation(op).raised
                                    /\ (op.content # None) # (op.type = "insert")))
         /\ LET made == OperationFromDict(op).op
            IN  IF FromDictRunning /\ made # None
                THEN /\ built_kinds' = built_kinds \cup {Get(made).op_type}
                     /\ content_kept' =
                          (content_kept \/ ((Get(made).content # None)
                                            # (Get(made).op_type = "insert")))
                ELSE UNCHANGED <<built_kinds, content_kept>>
    /\ v_op_i' = v_op_i + 1
    /\ vpc' = "op_read"
    /\ UNCHANGED <<v_file_i, dispatched>>

\* Back at the head of the loops over the operations.
NextOperation ==
    /\ vpc = "op_read"
    /\ cur_op' = None
    /\ vpc' = "op"
    /\ UNCHANGED <<v_file_i, v_op_i, errors, v_raised, fd_status, fd_at,
                   first_bad, built_kinds, content_kept, content_passed,
                   unknown_seen, dispatched>>

\* The list of operations of the file has no further element.
EndOfOperations ==
    /\ vpc = "op"
    /\ ~ReadersStopped
    /\ vpc' = "file"
    /\ UNCHANGED <<v_file_i, v_op_i, cur_op, errors, v_raised, fd_status, fd_at,
                   first_bad, built_kinds, content_kept, content_passed,
                   unknown_seen, dispatched>>

\* The list of files has no further element, or both readers have raised:
\* validate_session returns its list unless it raised, from_dict returns the
\* session unless it raised.
EndOfFiles ==
    /\ \/ vpc \in {"file", "files_end"}
       \/ vpc = "op" /\ ReadersStopped
    /\ fd_status' = IF FromDictRunning THEN "built" ELSE fd_status
    /\ vpc' = "done"
    /\ UNCHANGED <<v_file_i, v_op_i, cur_op, errors, v_raised, fd_at, first_bad,
                   built_kinds, content_kept, content_passed, unknown_seen,
                   dispatched>>

\* execute on the session from_dict returned: _execute_operation on each of
\* its operations.
ExecuteBuilt ==
    /\ vpc = "done"
    /\ fd_status = "built"
    /\ dispatched' = {ExecuteOperationBranch(k) : k \in built_kinds}
    /\ vpc' = "executed"
    /\ UNCHANGED <<v_file_i, v_op_i, cur_op, errors, v_raised, fd_status, fd_at,
                   first_bad, built_kinds, content_kept, content_passed,
                   unknown_seen>>

\* ------------------------------------------------- SpecCompile: the wire
\* Variant: line_end is looked up under a key to_dict never writes.
DataGetLineEndMissing(d) ==
    [dict |-> TRUE,
     type |-> d.type,
     line |-> JInt(d.line),
     line_end |-> JAbsent,
     content |-> IF "content" \in DOMAIN d THEN Some(d.content) ELSE None]

\* What data['type'] and data.get(...) of Operation.from_dict find in a
\* dictionary written by DiffOperation.to_dict.
DataGet(d) ==
    [dict |-> TRUE,
     type |-> d.type,
     line |-> JInt(d.line),
     line_end |-> IF "line_end" \in DOMAIN d THEN JInt(d.line_end) ELSE JAbsent,
     content |-> IF "content" \in DOMAIN d THEN Some(d.content) ELSE None]

\* FileOperation.from_dict on a dictionary with a path and a list of
\* operations: `[Operation.from_dict(op) for op in operations_data]`
\* returns the list or raises at the first element refused.
OperationsFromDict(w) ==
    IF \E k \in 1..Len(w) : OperationFromDict(DataGet(w[k])).status # "ok"
    THEN [status |-> "invalid", operations |-> <<>>]
    ELSE [status |-> "ok",
          operations |-> [k \in 1..Len(w) |->
                             Get(OperationFromDict(DataGet(w[k])).op)]]

\* _process_patched_file returns the FileChanges; build_session writes them
\* into the session dictionary, ReplaySession.from_dict reads it back, and
\* the file is then replayed.
FinishFile ==
    /\ cpc = "hunks"
    /\ hunkIdx = NumHunks
    /\ wire' = [k \in 1..Len(operations) |-> ToDict(operations[k])]
    /\ read_back' = OperationsFromDict(wire')
    /\ cpc' = "apply"
    /\ UNCHANGED <<tags, marks, lead, is_new, hunkIdx, operations,
                   removed_lines, added_lines, hunkOps, doc, opIdx>>

\* --------------------------------------------------------------- SpecTyping
\* VSCodeController.type_code, called again and again on a text, and the
\* module-level random generator it shares with the engine.  Positions of the
\* generator's stream are counted from the last seeding; a stream that is not
\* seeded again goes on with values no decision has looked at.
\* The controller's configuration, probabilities in percent.
TypingConfigs ==
    [typo_probability : {50},
     typo_correction_probability : {50, 100},
     thinking_pause_probability : {40}]

\* Values of random.random(), in percent; 0 marks a position of the stream
\* whose value no decision has looked at yet.
Draws == {25, 75}
MaxDraws == 8 * MaxText + MaxForeign

TypingChars == {"b", "B", "\n", "\t"}
Texts == UNION {[1..n -> TypingChars] : n \in 0..MaxText}

\* char.lower(), char.isupper() and typo.upper() on the characters used.
Lower(c) == IF c = "B" THEN "b" ELSE c
IsUpper(c) == c = "B"
Upper(c) == CASE c = "v" -> "V" [] c = "n" -> "N" [] OTHER -> c
IsAlnum(c) == c \in {"b", "B"}

\* TYPO_CANDIDATES and ADJACENT_KEYS, for the characters used.
TypoCandidates == {"b"}
AdjacentKeys(c) == <<"v", "g", "h", "n">>

\* random.random() < percent, for a draw.
Below(draw, percent) == draw < percent
\* The comparison gives the same answer for every draw.
Decided(percent) == \A d, e \in Draws : Below(d, percent) = Below(e, percent)

\* _should_pause_to_think: the probability compared with the draw.
PauseProbability(char) ==
    LET p0 == t_config.thinking_pause_probability
        p1 == IF char \in {".", "\n", ";", "{", "}", "(", ")"} THEN p0 * 2 ELSE p0
    IN  IF IsAlnum(char) THEN p1 \div 2 ELSE p1

\* _get_typo_char: random.choice(adjacent), case preserved.
GetTypoChar(char, draw) ==
    LET adjacent == AdjacentKeys(Lower(char))
        typo == IF draw = 25 THEN adjacent[1] ELSE adjacent[Len(adjacent)]
    IN  IF IsUpper(char) THEN Upper(typo) ELSE typo

\* Variant: the newline is a plain Return.
TypeSingleCharPlainReturn(char) ==
    IF char = "\n" THEN << <<"key_press", "Return">> >>
    ELSE IF char = "\t" THEN << <<"key_press", "Tab">> >>
    ELSE << <<"type_text", char>> >>

\* _type_single_char: the calls made on the input backend.
TypeSingleChar(char) ==
    IF char = "\n"
    THEN << <<"key_press", "Return">>, <<"key_press", "Home">>,
            <<"key_combo", "shift+End">>, <<"key_press", "Delete">> >>
    ELSE IF char = "\t" THEN << <<"key_press", "Tab">> >>
    ELSE << <<"type_text", char>> >>

\* Variant: the corrected character is typed without the BackSpace.
TypedEventsNoBackSpace(char, typo, typo_char, corrected) ==
    IF typo
    THEN TypeSingleChar(typo_char)
         \o (IF corrected THEN TypeSingleChar(char) ELSE <<>>)
    ELSE TypeSingleChar(char)

\* The calls of one iteration of type_code's loop.
TypedEvents(char, typo, typo_char, corrected) ==
    IF typo
    THEN TypeSingleChar(typo_char)
         \o (IF corrected
             THEN << <<"key_press", "BackSpace">> >> \o TypeSingleChar(char)
             ELSE <<>>)
    ELSE TypeSingleChar(char)

\* Variant: the counter holds the characters of the running call only.
CharsTypedAfterOfThisCall(n, i, typo) == i + 1

\* _chars_typed after one iteration over the character at index i: one
\* increment for the character, one more for an injected typo.
CharsTypedAfter(n, i, typo) == IF typo THEN n + 2 ELSE n + 1

\* The module-level generator: the value at a position of its stream, looked
\* at now (kept if a decision has looked at it before).
Known(i, v) == stream[i] = 0 \/ stream[i] = v
Reveal(s, i, used, v) == IF used THEN [s EXCEPT ![i] = v] ELSE s

\* The typing styles of an insert operation; "none" is no style.
TypingStyles == {"none", "fast", "precise"}

\* _execute_insert: the wpm and typo_probability arguments of type_code for
\* a typing style, from the controller's settings (int() truncates).
StyleOverrides(style, wpm, typo) ==
    CASE style = "fast" ->
            [wpm |-> Some((wpm * 15) \div 10), typo_probability |-> Some(typo \div 2)]
      [] style = "slow" ->
            [wpm |-> Some((wpm * 7) \div 10), typo_probability |-> Some((typo * 3) \div 2)]
      [] style = "precise" -> [wpm |-> None, typo_probability |-> Some(0)]
      [] OTHER -> [wpm |-> None, typo_probability |-> None]

\* Variant: only typo_probability is put back.
RestoreTypingSettingsTypoOnly ==
    /\ t_typo_probability' = Get(t_saved_typo)
    /\ t_saved_typo' = None
    /\ t_base_wpm' = t_base_wpm
    /\ t_saved_wpm' = None

\* The finally block of type_code: the overridden settings are put back.
RestoreTypingSettings ==
    /\ t_typo_probability' = Get(t_saved_typo)
    /\ t_saved_typo' = None
    /\ t_base_wpm' = Get(t_saved_wpm)
    /\ t_saved_wpm' = None

FreshStream == [i \in 1..MaxDraws |-> 0]

TypingIdle ==
    /\ tpc = "off"
    /\ t_text = <<>> /\ t_i = 0 /\ prev_char = None /\ chars_typed = 0
    /\ t_abort = FALSE
    /\ t_config = [typo_probability |-> 50, typo_correction_probability |-> 50,
                   thinking_pause_probability |-> 40]
    /\ t_typo_probability = 50 /\ t_saved_typo = None /\ t_override = None
    /\ stream = FreshStream /\ rng_i = 0 /\ foreign = 0
    /\ events = <<>> /\ typos = {} /\ corrected_at = {} /\ last_n = 0
    /\ t_result = "none" /\ first_run = None
    /\ emitted_last = None /\ pause_on = None
    /\ t_base_wpm = DefaultWpm /\ t_saved_wpm = None /\ t_wpm_override = None
    /\ t_entry = [base_wpm |-> DefaultWpm, typo_probability |-> 50]

\* A controller as constructed, the generator just seeded, a text to type.
TypingInit ==
    /\ tpc = "idle"
    /\ t_text \in Texts /\ t_i = 0 /\ prev_char = None /\ chars_typed = 0
    /\ t_abort = FALSE
    /\ t_config \in TypingConfigs
    /\ t_typo_probability = t_config.typo_probability
    /\ t_saved_typo = None /\ t_override = None
    /\ stream = FreshStream /\ rng_i = 0 /\ foreign = 0
    /\ events = <<>> /\ typos = {} /\ corrected_at = {} /\ last_n = 0
    /\ t_result = "none" /\ first_run = None
    /\ emitted_last = None /\ pause_on = None
    /\ t_base_wpm = DefaultWpm /\ t_saved_wpm = None /\ t_wpm_override = None
    /\ t_entry = [base_wpm |-> DefaultWpm, typo_probability |-> 50]

\* type_code up to its loop: _ensure_focused (may raise), reset_abort, the
\* typo_probability argument (0.0 for the "precise" typing style).
TypeCode ==
    /\ tpc = "idle"
    /\ \E focused \in BOOLEAN, style \in TypingStyles :
          LET ov == StyleOverrides(style, t_base_wpm, t_typo_probability)
              override == ov.typo_probability
          IN  /\ t_override' = override
              /\ t_wpm_override' = ov.wpm
              /\ IF focused
                 THEN /\ t_abort' = FALSE
                      /\ t_saved_typo' = Some(t_typo_probability)
                      /\ t_saved_wpm' = Some(t_base_wpm)
                      /\ t_typo_probability' = IF override # None THEN Get(override)
                                               ELSE t_typo_probability
                      /\ t_base_wpm' = IF ov.wpm # None THEN Get(ov.wpm)
                                       ELSE t_base_wpm
                      /\ tpc' = "loop"
                      /\ t_result' = "none"
                 ELSE /\ tpc' = "returned"
                      /\ t_result' = "raised"
                      /\ UNCHANGED <<t_abort, t_saved_typo, t_typo_probability,
                                     t_saved_wpm, t_base_wpm>>
    /\ t_entry' = [base_wpm |-> t_base_wpm, typo_probability |-> t_typo_probability]
    /\ UNCHANGED <<t_text, t_i, prev_char, chars_typed, t_config, stream,
                   rng_i, foreign, events, typos, corrected_at, last_n,
                   first_run>>
    /\ UNCHANGED <<emitted_last, pause_on>>

\* Top of `for i, char in enumerate(text)`: return True at the end of the
\* text, return False when the abort flag is set, else the next character.
TypeCodeLoop ==
    /\ tpc = "loop"
    /\ IF t_i = Len(t_text)
       THEN /\ t_result' = "true" /\ tpc' = "returned" /\ RestoreTypingSettings
       ELSE IF t_abort
       THEN /\ t_result' = "false" /\ tpc' = "returned" /\ RestoreTypingSettings
       ELSE /\ tpc' = "char"
            /\ UNCHANGED <<t_result, t_typo_probability, t_saved_typo,
                           t_base_wpm, t_saved_wpm>>
    /\ UNCHANGED <<t_text, t_i, prev_char, chars_typed, t_abort, t_config,
                   t_override, stream, rng_i, foreign, events, typos,
                   corrected_at, last_n, first_run>>
    /\ UNCHANGED <<emitted_last, pause_on>>
    /\ UNCHANGED <<t_wpm_override, t_entry>>

\* One iteration of the loop: the delay (random.gauss), the thinking pause,
\* the typo decision, the character or the typo and its correction.  A call
\* on the input backend may raise: the first one, or the BackSpace.
TypeCodeChar ==
    /\ tpc = "char"
    /\ chars_typed + 2 <= MaxTyped
    /\ \E vp, vt, vc, vr \in Draws, fail \in {"none", "first", "backspace"} :
         LET char == t_text[t_i + 1]
             has_prev == prev_char # None
             i_pause == rng_i + 2
             p_pause == IF has_prev THEN PauseProbability(Get(prev_char)) ELSE 0
             paused == has_prev /\ Below(vp, p_pause)
             n1 == rng_i + 1 + (IF has_prev THEN 1 ELSE 0) + (IF paused THEN 1 ELSE 0)
             candidate == Lower(char) \in TypoCandidates
             i_typo == n1 + 1
             typo == candidate /\ Below(vt, t_typo_probability)
             i_choice == i_typo + 1
             i_corr == i_choice + 1
             corrected == typo /\ Below(vr, t_config.typo_correction_probability)
             n2 == IF ~candidate THEN n1
                   ELSE IF ~typo THEN i_typo
                   ELSE IF ~corrected THEN i_corr
                   ELSE i_corr + 2
             use_p == has_prev /\ ~Decided(p_pause)
             use_t == candidate /\ ~Decided(t_typo_probability)
             use_c == typo
             use_r == typo /\ ~Decided(t_config.typo_correction_probability)
             typo_char == GetTypoChar(char, vc)
             s1 == Reveal(stream, i_pause, use_p, vp)
             s2 == Reveal(s1, i_typo, use_t, vt)
             s3 == Reveal(s2, i_choice, use_c, vc)
             s4 == Reveal(s3, i_corr, use_r, vr)
         IN  /\ pause_on' = IF has_prev
                             THEN Some([on |-> Get(prev_char),
                                        emitted |-> Get(emitted_last)])
                             ELSE None
             /\ emitted_last' =
                   IF fail = "first" THEN emitted_last
                   ELSE IF fail = "backspace" \/ (typo /\ ~corrected)
                   THEN Some(typo_char)
                   ELSE Some(char)
             /\ IF use_p THEN Known(i_pause, vp) ELSE vp = 25
             /\ IF use_t THEN Known(i_typo, vt) ELSE vt = 25
             /\ IF use_c THEN Known(i_choice, vc) ELSE vc = 25
             /\ IF use_r THEN Known(i_corr, vr) ELSE vr = 25
             /\ fail = "backspace" => corrected
             /\ IF fail = "first"
                THEN /\ stream' = IF typo THEN s3 ELSE s2
                     /\ rng_i' = IF typo THEN i_choice
                                 ELSE IF candidate THEN i_typo ELSE n1
                     /\ t_result' = "raised" /\ tpc' = "returned"
                     /\ RestoreTypingSettings
                     /\ UNCHANGED <<events, typos, corrected_at, last_n,
                                    chars_typed, t_i, prev_char>>
                ELSE IF fail = "backspace"
                THEN /\ stream' = s4
                     /\ rng_i' = i_corr + 1
                     /\ events' = events \o TypeSingleChar(typo_char)
                     /\ typos' = typos \cup {t_i + 1}
                     /\ last_n' = Len(events)
                     /\ chars_typed' = chars_typed + 1
                     /\ t_result' = "raised" /\ tpc' = "returned"
                     /\ RestoreTypingSettings
                     /\ UNCHANGED <<t_i, prev_char, corrected_at>>
                ELSE /\ stream' = s4
                     /\ rng_i' = n2
                     /\ events' = events \o TypedEvents(char, typo, typo_char, corrected)
                     /\ typos' = IF typo THEN typos \cup {t_i + 1} ELSE typos
                     /\ corrected_at' = IF corrected THEN corrected_at \cup {t_i + 1}
                                        ELSE corrected_at
                     /\ last_n' = Len(events)
                     /\ chars_typed' = CharsTypedAfter(chars_typed, t_i, typo)
                     /\ t_i' = t_i + 1
                     /\ prev_char' = Some(char)
                     /\ tpc' = "loop"
                     /\ UNCHANGED <<t_result, t_typo_probability, t_saved_typo,
                                    t_base_wpm, t_saved_wpm>>
    /\ UNCHANGED <<t_text, t_abort, t_config, t_override, foreign, first_run>>
    /\ UNCHANGED <<t_wpm_override, t_entry>>

\* What a returned call leaves for the next one.
BetweenCalls ==
    /\ tpc' = "idle"
    /\ t_i' = 0 /\ prev_char' = None
    /\ events' = <<>> /\ typos' = {} /\ corrected_at' = {} /\ last_n' = 0
    /\ t_result' = "none" /\ t_override' = None
    /\ rng_i' = 0 /\ foreign' = 0
    /\ emitted_last' = None /\ pause_on' = None
    /\ t_wpm_override' = None
    /\ UNCHANGED <<t_base_wpm, t_saved_wpm, t_entry>>
    /\ UNCHANGED <<t_text, chars_typed, t_abort, t_config, t_typo_probability,
                   t_saved_typo>>

\* The caller seeds the generator as before the call that just ran to its end
\* with the controller's own settings; the events and typos of that call are
\* kept, the next call is the second run.
SeedAgain ==
    /\ tpc = "returned"
    /\ t_result = "true" /\ t_override = None /\ first_run = None
    /\ first_run' = Some([events |-> events, typos |-> typos])
    /\ UNCHANGED stream
    /\ BetweenCalls

\* The caller goes on without seeding.
GoOn ==
    /\ tpc = "returned"
    /\ first_run' = None
    /\ stream' = FreshStream
    /\ BetweenCalls

\* ReplayEngine._maybe_pause_between_files before the second run:
\* random.uniform on the same generator.
MaybePauseBetweenFiles ==
    /\ tpc = "idle"
    /\ first_run # None
    /\ foreign < MaxForeign
    /\ rng_i' = rng_i + 1
    /\ foreign' = foreign + 1
    /\ UNCHANGED <<tpc, t_text, t_i, prev_char, chars_typed, t_abort, t_config,
                   t_typo_probability, t_saved_typo, t_override, stream,
                   events, typos, corrected_at, last_n,
                   t_result, first_run>>
    /\ UNCHANGED <<emitted_last, pause_on>>
    /\ UNCHANGED <<t_base_wpm, t_saved_wpm, t_wpm_override, t_entry>>

\* VSCodeController.reset_typing_state.
ResetTypingState ==
    /\ tpc = "idle"
    /\ chars_typed' = 0
    /\ UNCHANGED <<tpc, t_text, t_i, prev_char, t_abort, t_config,
                   t_typo_probability, t_saved_typo, t_override, stream, rng_i,
                   foreign, events, typos, corrected_at, last_n,
                   t_result, first_run>>
    /\ UNCHANGED <<emitted_last, pause_on>>
    /\ UNCHANGED <<t_base_wpm, t_saved_wpm, t_wpm_override, t_entry>>

\* VSCodeController.request_abort, from another thread or a signal handler;
\* the loop sees it at its next test of the flag.
RequestAbortTyping ==
    /\ tpc = "loop"
    /\ ~t_abort
    /\ t_abort' = TRUE
    /\ UNCHANGED <<tpc, t_text, t_i, prev_char, chars_typed, t_config,
                   t_typo_probability, t_saved_typo, t_override, stream, rng_i,
                   foreign, events, typos, corrected_at, last_n,
                   t_result, first_run>>
    /\ UNCHANGED <<emitted_last, pause_on>>
    /\ UNCHANGED <<t_base_wpm, t_saved_wpm, t_wpm_override, t_entry>>

\* ------------------------------------------------- intervention orchestrator
\* src/intervention/orchestrator.py: the main thread calls start(), stop()
\* and check_now(); every thread made by start() runs _monitor_loop.  Time is
\* a clock of whole ticks that starts far enough from 0 that the first
\* _can_intervene() answers True, as time.time() does.

InterventionConfigs ==
    [enabled : BOOLEAN, min_cooldown_seconds : {2}, max_retries : {2}]

MainThread == 0
Monitors == 1..MaxMonitors
Checkers == {MainThread} \cup Monitors
Verdicts == {"unknown", "normal", "stuck", "abnormal"}

\* threading.Thread.is_alive
Alive(t) == ipc[t] \in {"wait", "check", "recover", "store"}

\* where a thread is when it is not inside check_now
Rest(c) == IF c = MainThread THEN "idle" ELSE "wait"

\* _can_intervene: enough time since the last recovery ended
CanIntervene ==
    now - last_intervention >= i_config.min_cooldown_seconds

\* the threads start() has not made yet
Unborn == {t \in Monitors : ipc[t] = "unborn"}

InterventionIdle ==
    /\ i_config = [enabled |-> FALSE, min_cooldown_seconds |-> 2,
                   max_retries |-> 2]
    /\ ipc = [c \in Checkers |-> IF c = MainThread THEN "off" ELSE "unborn"]
    /\ stop_event = FALSE
    /\ monitor_thread = None
    /\ now = 0
    /\ last_intervention = 0
    /\ retry_count = 0
    /\ critical_failure = FALSE
    /\ last_event = "none"
    /\ prev_start = None
    /\ last_start = None
    /\ retry_read = [c \in Checkers |-> None]
    /\ failed_since = 0
    /\ triggered_at = None

\* InterventionOrchestrator.__init__
InterventionInit ==
    /\ i_config \in InterventionConfigs
    /\ ipc = [c \in Checkers |-> IF c = MainThread THEN "idle" ELSE "unborn"]
    /\ stop_event = FALSE
    /\ monitor_thread = None
    /\ now = i_config.min_cooldown_seconds
    /\ last_intervention = 0
    /\ retry_count = 0
    /\ critical_failure = FALSE
    /\ last_event = "none"
    /\ prev_start = None
    /\ last_start = None
    /\ retry_read = [c \in Checkers |-> None]
    /\ failed_since = 0
    /\ triggered_at = None

\* start(): nothing when disabled or when the registered thread is alive;
\* otherwise the event is cleared, the counters are reset and a new thread
\* is made and registered.
Start ==
    /\ ipc[MainThread] = "idle"
    /\ IF ~i_config.enabled
           \/ (monitor_thread # None /\ Alive(Get(monitor_thread)))
       THEN UNCHANGED <<ipc, stop_event, monitor_thread, last_intervention,
                        retry_count, failed_since>>
       ELSE \E t \in Unborn :
               /\ \A u \in Unborn : t <= u
               /\ stop_event' = FALSE
               /\ retry_count' = 0
               /\ failed_since' = 0
               /\ last_intervention' = 0
               /\ ipc' = [ipc EXCEPT ![t] = "wait"]
               /\ monitor_thread' = Some(t)
    /\ UNCHANGED <<i_config, now, critical_failure, last_event, prev_start,
                   last_start, retry_read, triggered_at>>

\* stop(): sets the event and joins the registered thread for five seconds.
\* A thread waiting on the event leaves its loop within the join; a thread
\* inside check_now is still alive when the join gives up.  Either way the
\* registration is dropped.
Stop ==
    /\ ipc[MainThread] = "idle"
    /\ stop_event' = TRUE
    /\ ipc' = IF monitor_thread # None /\ ipc[Get(monitor_thread)] = "wait"
              THEN [ipc EXCEPT ![Get(monitor_thread)] = "dead"]
              ELSE ipc
    /\ monitor_thread' = None
    /\ UNCHANGED <<i_config, now, last_intervention, retry_count,
                   critical_failure, last_event, prev_start, last_start,
                   retry_read, failed_since, triggered_at>>

\* _monitor_loop: stop_event.wait(timeout) returns; the loop ends when the
\* event is set and calls check_now otherwise.
MonitorLoop(t) ==
    /\ ipc[t] = "wait"
    /\ ipc' = [ipc EXCEPT ![t] = IF stop_event THEN "dead" ELSE "check"]
    /\ UNCHANGED <<i_config, stop_event, monitor_thread, now,
                   last_intervention, retry_count, critical_failure,
                   last_event, prev_start, last_start, retry_read,
                   failed_since, triggered_at>>

\* check_now called from the main thread
CheckNowMain ==
    /\ ipc[MainThread] = "idle"
    /\ ipc' = [ipc EXCEPT ![MainThread] = "check"]
    /\ UNCHANGED <<i_config, stop_event, monitor_thread, now,
                   last_intervention, retry_count, critical_failure,
                   last_event, prev_start, last_start, retry_read,
                   failed_since, triggered_at>>

\* check_now up to the recovery: screenshot, stuck detector, analysis.  A
\* verdict that asks for a recovery starts one when _can_intervene() allows
\* it; every other path records its event and returns.
Analyze(c) ==
    /\ ipc[c] = "check"
    /\ \E verdict \in Verdicts :
          IF verdict \in {"stuck", "abnormal"} /\ CanIntervene
          THEN /\ ipc' = [ipc EXCEPT ![c] = "recover"]
               /\ prev_start' = last_start
               /\ last_start' = Some(now)
               /\ UNCHANGED last_event
          ELSE /\ ipc' = [ipc EXCEPT ![c] = Rest(c)]
               /\ last_event' = verdict
               /\ UNCHANGED <<prev_start, last_start>>
    /\ UNCHANGED <<i_config, stop_event, monitor_thread, now,
                   last_intervention, retry_count, critical_failure,
                   retry_read, failed_since, triggered_at>>

\* check_now after recovery.execute returned or raised: the time of the
\* intervention is written; a success resets the count and the event is
\* recorded; a failure goes on to `self._retry_count += 1`, which reads the
\* count here and writes it in StoreRetry.
RecoveryDone(c) ==
    /\ ipc[c] = "recover"
    /\ last_intervention' = now
    /\ \E success \in BOOLEAN :
          IF success
          THEN /\ retry_count' = 0
               /\ failed_since' = 0
               /\ last_event' = "recovered"
               /\ ipc' = [ipc EXCEPT ![c] = Rest(c)]
               /\ UNCHANGED retry_read
          ELSE /\ retry_count < MaxRetryCount
               /\ failed_since < MaxRetryCount
               /\ retry_read' = [retry_read EXCEPT ![c] = Some(retry_count)]
               /\ ipc' = [ipc EXCEPT ![c] = "store"]
               /\ UNCHANGED <<retry_count, failed_since, last_event>>
    /\ UNCHANGED <<i_config, stop_event, monitor_thread, now, prev_start,
                   last_start, critical_failure, triggered_at>>

\* `if self._retry_count >= self.config.max_retries`
ReachedMaxRetries(count, max_retries) == count >= max_retries

\* The store of `self._retry_count += 1`, the test against max_retries with
\* _trigger_critical_failure, and the event recorded.
StoreRetry(c) ==
    /\ ipc[c] = "store"
    /\ retry_count' = Get(retry_read[c]) + 1
    /\ failed_since' = failed_since + 1
    /\ IF ReachedMaxRetries(retry_count', i_config.max_retries)
       THEN /\ critical_failure' = TRUE
            /\ triggered_at' = Some(retry_count')
       ELSE UNCHANGED <<critical_failure, triggered_at>>
    /\ retry_read' = [retry_read EXCEPT ![c] = None]
    /\ last_event' = "recovered"
    /\ ipc' = [ipc EXCEPT ![c] = Rest(c)]
    /\ UNCHANGED <<i_config, stop_event, monitor_thread, now,
                   last_intervention, prev_start, last_start>>

\* on_file_change, called by the main thread: reset_stuck_detector and
\* reset_retry_count.
OnFileChange ==
    /\ ipc[MainThread] = "idle"
    /\ retry_count' = 0
    /\ failed_since' = 0
    /\ UNCHANGED <<i_config, ipc, stop_event, monitor_thread, now,
                   last_intervention, critical_failure, last_event,
                   prev_start, last_start, retry_read, triggered_at>>

\* time passes
Tick ==
    /\ now < MaxClock
    /\ now' = now + 1
    /\ UNCHANGED <<i_config, ipc, stop_event, monitor_thread,
                   last_intervention, retry_count, critical_failure,
                   last_event, prev_start, last_start, retry_read,
                   failed_since, triggered_at>>

MonitorStep == \E t \in Monitors : MonitorLoop(t)
AnalyzeStep == \E c \in Checkers : Analyze(c)
RecoveryDoneStep == \E c \in Checkers : RecoveryDone(c)
StoreRetryStep == \E c \in Checkers : StoreRetry(c)

\* ------------------------------------------------------- recovery executor
\* src/intervention/recovery.py: RecoveryExecutor.execute on one list of
\* action strings.  An action is known by what _execute_single meets:
\* a handler that returns, a handler that raises, or no handler.
ActionKinds == {"handled", "raises", "unknown"}

RECURSIVE ActionLists(_)
\* the lists of at most n actions
ActionLists(n) ==
    IF n = 0 THEN {<<>>}
    ELSE ActionLists(n - 1)
         \cup {Append(l, k) : l \in {m \in ActionLists(n - 1) : Len(m) = n - 1},
                              k \in ActionKinds}

\* _execute_single: the RecoveryResult of the action at position i; only a
\* handler that returned gives success.
ExecuteSingle(i, kind) == [success |-> kind = "handled", action_taken |-> i]

\* Variant: the loop goes on after a failed action.
StopsAfterNever(res) == FALSE

\* `if not result.success: break`
StopsAfter(res) == ~res.success

RecoveryIdle ==
    /\ rpc = "off"
    /\ actions = <<>>
    /\ results = <<>>
    /\ attempted = <<>>

\* execute is called with a list of actions
RecoveryInit ==
    /\ rpc = "call"
    /\ actions \in ActionLists(MaxActions)
    /\ results = <<>>
    /\ attempted = <<>>

\* execute up to its loop: an empty list returns [] at once
ExecuteEnter ==
    /\ rpc = "call"
    /\ rpc' = IF actions = <<>> THEN "returned" ELSE "loop"
    /\ UNCHANGED <<actions, results, attempted>>

\* one iteration of `for i, action in enumerate(actions)`: _execute_single,
\* the append, the break on a failure, and the return after the last
\* iteration
ExecuteAction ==
    /\ rpc = "loop"
    /\ LET i == Len(attempted) + 1
           res == ExecuteSingle(i, actions[i])
       IN  /\ attempted' = Append(attempted, i)
           /\ results' = Append(results, res)
           /\ rpc' = IF StopsAfter(res) \/ i = Len(actions)
                     THEN "returned" ELSE "loop"
    /\ UNCHANGED actions

\* ---------------------------------------------------------- specifications
InitGroup == GroupInit /\ CompileIdle /\ EngineIdle /\ OrchIdle /\ ParseIdle /\ ValidateIdle /\ TypingIdle /\ InterventionIdle /\ RecoveryIdle
NextGroup ==
    \/ GroupBuildDelete /\ UNCHANGED <<compileVars, engineVars, orchVars, parseVars, validateVars, typingVars, interventionVars, recoveryVars>>
    \/ GroupBuildInsert /\ UNCHANGED <<compileVars, engineVars, orchVars, parseVars, validateVars, typingVars, interventionVars, recoveryVars>>
    \/ GroupSerialize /\ UNCHANGED <<compileVars, engineVars, orchVars, parseVars, validateVars, typingVars, interventionVars, recoveryVars>>
SpecGroup == InitGroup /\ [][NextGroup]_vars

InitCompile == CompileInit /\ GroupIdle /\ EngineIdle /\ OrchIdle /\ ParseIdle /\ ValidateIdle /\ TypingIdle /\ InterventionIdle /\ RecoveryIdle
NextCompile ==
    \/ ProcessHunk /\ UNCHANGED <<groupVars, engineVars, orchVars, parseVars, validateVars, typingVars, interventionVars, recoveryVars>>
    \/ FinishFile /\ UNCHANGED <<groupVars, engineVars, orchVars, parseVars, validateVars, typingVars, interventionVars, recoveryVars>>
    \/ ExecuteOperation /\ UNCHANGED <<groupVars, engineVars, orchVars, parseVars, validateVars, typingVars, interventionVars, recoveryVars>>
    \/ FinishReplay /\ UNCHANGED <<groupVars, engineVars, orchVars, parseVars, validateVars, typingVars, interventionVars, recoveryVars>>
SpecCompile == InitCompile /\ [][NextCompile]_vars

InitEngine == EngineInit /\ GroupIdle /\ CompileIdle /\ OrchIdle /\ ParseIdle /\ ValidateIdle /\ TypingIdle /\ InterventionIdle /\ RecoveryIdle
NextEngine ==
    \/ ExecuteStart /\ UNCHANGED <<groupVars, compileVars, orchVars, parseVars, validateVars, typingVars, interventionVars, recoveryVars>>
    \/ FileCheck /\ UNCHANGED <<groupVars, compileVars, orchVars, parseVars, validateVars, typingVars, interventionVars, recoveryVars>>
    \/ OpenFile /\ UNCHANGED <<groupVars, compileVars, orchVars, parseVars, validateVars, typingVars, interventionVars, recoveryVars>>
    \/ OpCheck /\ UNCHANGED <<groupVars, compileVars, orchVars, parseVars, validateVars, typingVars, interventionVars, recoveryVars>>
    \/ Dispatch /\ UNCHANGED <<groupVars, compileVars, orchVars, parseVars, validateVars, typingVars, interventionVars, recoveryVars>>
    \/ TypeCodeEnter /\ UNCHANGED <<groupVars, compileVars, orchVars, parseVars, validateVars, typingVars, interventionVars, recoveryVars>>
    \/ TypeLoop /\ UNCHANGED <<groupVars, compileVars, orchVars, parseVars, validateVars, typingVars, interventionVars, recoveryVars>>
    \/ TypeChar /\ UNCHANGED <<groupVars, compileVars, orchVars, parseVars, validateVars, typingVars, interventionVars, recoveryVars>>
    \/ SaveFile /\ UNCHANGED <<groupVars, compileVars, orchVars, parseVars, validateVars, typingVars, interventionVars, recoveryVars>>
    \/ Finally /\ UNCHANGED <<groupVars, compileVars, orchVars, parseVars, validateVars, typingVars, interventionVars, recoveryVars>>
    \/ RequestAbort /\ UNCHANGED <<groupVars, compileVars, orchVars, parseVars, validateVars, typingVars, interventionVars, recoveryVars>>
SpecEngine == InitEngine /\ [][NextEngine]_vars

InitOrch == OrchInit /\ GroupIdle /\ CompileIdle /\ EngineIdle /\ ParseIdle /\ ValidateIdle /\ TypingIdle /\ InterventionIdle /\ RecoveryIdle
NextOrch ==
    \/ RunOnce /\ UNCHANGED <<groupVars, compileVars, engineVars, parseVars, validateVars, typingVars, interventionVars, recoveryVars>>
    \/ NextSession /\ UNCHANGED <<groupVars, compileVars, engineVars, parseVars, validateVars, typingVars, interventionVars, recoveryVars>>
    \/ LoadSession /\ UNCHANGED <<groupVars, compileVars, engineVars, parseVars, validateVars, typingVars, interventionVars, recoveryVars>>
    \/ StartSession /\ UNCHANGED <<groupVars, compileVars, engineVars, parseVars, validateVars, typingVars, interventionVars, recoveryVars>>
    \/ Replay /\ UNCHANGED <<groupVars, compileVars, engineVars, parseVars, validateVars, typingVars, interventionVars, recoveryVars>>
    \/ ExecuteReturns /\ UNCHANGED <<groupVars, compileVars, engineVars, parseVars, validateVars, typingVars, interventionVars, recoveryVars>>
    \/ ClockOut /\ UNCHANGED <<groupVars, compileVars, engineVars, parseVars, validateVars, typingVars, interventionVars, recoveryVars>>
    \/ MarkProcessed /\ UNCHANGED <<groupVars, compileVars, engineVars, parseVars, validateVars, typingVars, interventionVars, recoveryVars>>
    \/ AfterSession /\ UNCHANGED <<groupVars, compileVars, engineVars, parseVars, validateVars, typingVars, interventionVars, recoveryVars>>
    \/ DaemonLoop /\ UNCHANGED <<groupVars, compileVars, engineVars, parseVars, validateVars, typingVars, interventionVars, recoveryVars>>
    \/ SignalHandler /\ UNCHANGED <<groupVars, compileVars, engineVars, parseVars, validateVars, typingVars, interventionVars, recoveryVars>>
SpecOrch == InitOrch /\ [][NextOrch]_vars

InitParse == ParseInit /\ GroupIdle /\ CompileIdle /\ EngineIdle /\ OrchIdle /\ ValidateIdle /\ TypingIdle /\ InterventionIdle /\ RecoveryIdle
NextParse ==
    \/ ParseDiffText /\ UNCHANGED <<groupVars, compileVars, engineVars, orchVars, validateVars, typingVars, interventionVars, recoveryVars>>
    \/ ProcessPatchedFile /\ UNCHANGED <<groupVars, compileVars, engineVars, orchVars, validateVars, typingVars, interventionVars, recoveryVars>>
    \/ ReturnResult /\ UNCHANGED <<groupVars, compileVars, engineVars, orchVars, validateVars, typingVars, interventionVars, recoveryVars>>
    \/ ParseAgain /\ UNCHANGED <<groupVars, compileVars, engineVars, orchVars, validateVars, typingVars, interventionVars, recoveryVars>>
SpecParse == InitParse /\ [][NextParse]_vars

InitValidate == ValidateInit /\ GroupIdle /\ CompileIdle /\ EngineIdle /\ OrchIdle /\ ParseIdle /\ TypingIdle /\ InterventionIdle /\ RecoveryIdle
NextValidate ==
    \/ ReadSession /\ UNCHANGED <<groupVars, compileVars, engineVars, orchVars, parseVars, typingVars, interventionVars, recoveryVars>>
    \/ ReadFileEntry /\ UNCHANGED <<groupVars, compileVars, engineVars, orchVars, parseVars, typingVars, interventionVars, recoveryVars>>
    \/ ReadOperation /\ UNCHANGED <<groupVars, compileVars, engineVars, orchVars, parseVars, typingVars, interventionVars, recoveryVars>>
    \/ NextOperation /\ UNCHANGED <<groupVars, compileVars, engineVars, orchVars, parseVars, typingVars, interventionVars, recoveryVars>>
    \/ EndOfOperations /\ UNCHANGED <<groupVars, compileVars, engineVars, orchVars, parseVars, typingVars, interventionVars, recoveryVars>>
    \/ EndOfFiles /\ UNCHANGED <<groupVars, compileVars, engineVars, orchVars, parseVars, typingVars, interventionVars, recoveryVars>>
    \/ ExecuteBuilt /\ UNCHANGED <<groupVars, compileVars, engineVars, orchVars, parseVars, typingVars, interventionVars, recoveryVars>>
SpecValidate == InitValidate /\ [][NextValidate]_vars

InitTyping == TypingInit /\ GroupIdle /\ CompileIdle /\ EngineIdle /\ OrchIdle /\ ParseIdle /\ ValidateIdle /\ InterventionIdle /\ RecoveryIdle
NextTyping ==
    \/ TypeCode /\ UNCHANGED <<groupVars, compileVars, engineVars, orchVars, parseVars, validateVars, interventionVars, recoveryVars>>
    \/ TypeCodeLoop /\ UNCHANGED <<groupVars, compileVars, engineVars, orchVars, parseVars, validateVars, interventionVars, recoveryVars>>
    \/ TypeCodeChar /\ UNCHANGED <<groupVars, compileVars, engineVars, orchVars, parseVars, validateVars, interventionVars, recoveryVars>>
    \/ SeedAgain /\ UNCHANGED <<groupVars, compileVars, engineVars, orchVars, parseVars, validateVars, interventionVars, recoveryVars>>
    \/ GoOn /\ UNCHANGED <<groupVars, compileVars, engineVars, orchVars, parseVars, validateVars, interventionVars, recoveryVars>>
    \/ MaybePauseBetweenFiles /\ UNCHANGED <<groupVars, compileVars, engineVars, orchVars, parseVars, validateVars, interventionVars, recoveryVars>>
    \/ ResetTypingState /\ UNCHANGED <<groupVars, compileVars, engineVars, orchVars, parseVars, validateVars, interventionVars, recoveryVars>>
    \/ RequestAbortTyping /\ UNCHANGED <<groupVars, compileVars, engineVars, orchVars, parseVars, validateVars, interventionVars, recoveryVars>>
SpecTyping == InitTyping /\ [][NextTyping]_vars

InitIntervention == InterventionInit /\ GroupIdle /\ CompileIdle /\ EngineIdle /\ OrchIdle /\ ParseIdle /\ ValidateIdle /\ TypingIdle /\ RecoveryIdle
NextIntervention ==
    \/ Start /\ UNCHANGED <<groupVars, compileVars, engineVars, orchVars, parseVars, validateVars, typingVars, recoveryVars>>
    \/ Stop /\ UNCHANGED <<groupVars, compileVars, engineVars, orchVars, parseVars, validateVars, typingVars, recoveryVars>>
    \/ MonitorStep /\ UNCHANGED <<groupVars, compileVars, engineVars, orchVars, parseVars, validateVars, typingVars, recoveryVars>>
    \/ CheckNowMain /\ UNCHANGED <<groupVars, compileVars, engineVars, orchVars, parseVars, validateVars, typingVars, recoveryVars>>
    \/ AnalyzeStep /\ UNCHANGED <<groupVars, compileVars, engineVars, orchVars, parseVars, validateVars, typingVars, recoveryVars>>
    \/ RecoveryDoneStep /\ UNCHANGED <<groupVars, compileVars, engineVars, orchVars, parseVars, validateVars, typingVars, recoveryVars>>
    \/ StoreRetryStep /\ UNCHANGED <<groupVars, compileVars, engineVars, orchVars, parseVars, validateVars, typingVars, recoveryVars>>
    \/ OnFileChange /\ UNCHANGED <<groupVars, compileVars, engineVars, orchVars, parseVars, validateVars, typingVars, recoveryVars>>
    \/ Tick /\ UNCHANGED <<groupVars, compileVars, engineVars, orchVars, parseVars, validateVars, typingVars, recoveryVars>>
SpecIntervention == InitIntervention /\ [][NextIntervention]_vars

InitRecovery == RecoveryInit /\ GroupIdle /\ CompileIdle /\ EngineIdle /\ OrchIdle /\ ParseIdle /\ ValidateIdle /\ TypingIdle /\ InterventionIdle
NextRecovery ==
    \/ ExecuteEnter /\ UNCHANGED <<groupVars, compileVars, engineVars, orchVars, parseVars, validateVars, typingVars, interventionVars>>
    \/ ExecuteAction /\ UNCHANGED <<groupVars, compileVars, engineVars, orchVars, parseVars, validateVars, typingVars, interventionVars>>
SpecRecovery == InitRecovery /\ [][NextRecovery]_vars

\* ------------------------------------------------------------------ claims
\* The inclusive range of a delete operation, and the line numbers a..b.
DelRange(op) ==
    <<op.line, IF op.line_end = None THEN op.line ELSE Get(op.line_end)>>
InsRange(op) == <<op.line, op.line + Len(SplitLines(Get(op.content))) - 1>>
RangeLines(r) == [k \in 1..(r[2] - r[1] + 1) |-> r[1] + k - 1]

\* Groups given as ranges partition the line numbers `nums` into maximal runs.
MaximalRuns(ranges, nums) ==
    /\ \A g \in 1..Len(ranges) : ranges[g][1] <= ranges[g][2]
    /\ Flatten([g \in 1..Len(ranges) |-> RangeLines(ranges[g])]) = nums
    /\ \A g \in 1..(Len(ranges) - 1) : ranges[g + 1][1] # ranges[g][2] + 1

\* C1: Round trip.  Applying the compiled operations of an existing file, in
\* emitted order, to the pre-image yields exactly the post-image.
RoundTrip ==
    (cpc = "done" /\ ~is_new) => doc = PostImage

\* C8: Grouping.  Both builders partition a buffer into non-empty maximal runs
\* of consecutive line numbers whose concatenation is the buffer, payloads
\* included; lines 3,4,5,9,10 give exactly the groups (3,5) and (9,10).
GroupingPartition ==
    LET nums == [i \in 1..Len(glines) |-> glines[i][1]]
        dr == [g \in 1..Len(gdel) |-> DelRange(gdel[g])]
        ir == [g \in 1..Len(gins) |-> InsRange(gins[g])]
    IN  /\ gpc \in {"deleted", "inserted"} =>
            /\ MaximalRuns(dr, nums)
            /\ \A g \in 1..Len(gdel) :
                /\ gdel[g].op_type = "delete"
                /\ gdel[g].line_end # None => Get(gdel[g].line_end) > gdel[g].line
            /\ nums = <<3, 4, 5, 9, 10>> => dr = <<<<3, 5>>, <<9, 10>>>>
        /\ gpc = "inserted" =>
            /\ MaximalRuns(ir, nums)
            /\ \A g \in 1..Len(gins) : gins[g].op_type = "insert"
            /\ Flatten([g \in 1..Len(gins) |-> SplitLines(Get(gins[g].content))])
                   = [i \in 1..Len(glines) |-> glines[i][2]]
            /\ nums = <<3, 4, 5, 9, 10>> => ir = <<<<3, 5>>, <<9, 10>>>>

\* C8 witness: the buffer 3,4,5,9,10 went through both builders.
GroupingExampleBuilt ==
    /\ gpc = "inserted"
    /\ [i \in 1..Len(glines) |-> glines[i][1]] = <<3, 4, 5, 9, 10>>
    /\ Len(gdel) = 2
    /\ Len(gins) = 2

\* The diff lines of hunk h with the given tag, and the k-th index of a set.
HunkLinesOf(h, tag) == {i \in HunkFirst(h)..HunkLast(h) : tags[i] = tag}
Kth(S, k) == CHOOSE i \in S : Cardinality({j \in S : j < i}) = k - 1

HunkCounters ==
    hunkIdx >= 1 =>
        LET rem == HunkLinesOf(hunkIdx, "rem")
            add == HunkLinesOf(hunkIdx, "add")
        IN  /\ removed_lines =
                  [k \in 1..Cardinality(rem) |->
                      <<PrePos(Kth(rem, k)), DiffText(Kth(rem, k))>>]
            /\ added_lines =
                  [k \in 1..Cardinality(add) |->
                      <<PostPos(Kth(add, k)), DiffText(Kth(add, k))>>]
            /\ ( /\ ~is_new
                 /\ Len(removed_lines) = 1
                 /\ Len(added_lines) = 2
                 /\ added_lines[1][1] = removed_lines[1][1]
                 /\ added_lines[2][1] = removed_lines[1][1] + 1 )
               => hunkOps =
                    << [op_type |-> "delete", line |-> removed_lines[1][1],
                        line_end |-> None, content |-> None],
                       [op_type |-> "insert", line |-> removed_lines[1][1],
                        line_end |-> None,
                        content |-> Some(added_lines[1][2] \o added_lines[2][2])] >>

\* C10 witness: a hunk that removes line 10 and adds lines 10 and 11.
ScenarioACompiled ==
    /\ hunkIdx >= 1
    /\ ~is_new
    /\ Len(removed_lines) = 1
    /\ removed_lines[1][1] = 10
    /\ Len(added_lines) = 2
    /\ added_lines[1][1] = 10
    /\ added_lines[2][1] = 11
    /\ Len(hunkOps) = 2

\* C2 -- Config restoration: for every override block of the session and
\* every way execute ends (return, AbortRequested, FileOpenError, any other
\* exception), the controller's base_wpm, typo_probability and
\* thinking_pause_probability after execute equal their values immediately
\* before the call.
ConfigRestoration ==
    epc = "done" => Controller = pre_call

\* C3 -- Cancellation safety: when request_abort is called while an insert is
\* being typed (from the operation-boundary check of that insert onwards), at
\* most one further character is typed before typing stops, and the config
\* restoration still runs before execute ends.
CancellationSafety ==
    /\ req_at = "insert" => late_chars <= 1
    /\ epc = "done" => restore_ran

\* C4 -- Unwind on cancellation: once a cancellation check has observed the
\* request, no further open, navigate, delete or save call is issued for the
\* session; in particular the file whose insert was cut short is not saved.
UnwindOnCancellation ==
    late_calls = 0

\* C5 -- execute ends with success only when every operation of every file
\* was executed to completion: never after an insert was cut short by a
\* cancellation request.
SuccessMeansComplete ==
    (epc = "done" /\ outcome = "true") => ~cut_short

\* C6 -- File-open exhaustion: open_file is tried at most
\* file_open_retries + 1 times per file; the engine goes on to the operations
\* of a file only when that file is open; when every attempt failed, execute
\* ends with FileOpenError and no operation or save is issued afterwards.
FileOpenExhaustion ==
    /\ attempts <= FileOpenRetries + 1
    /\ epc = "open" => attempts <= FileOpenRetries
    /\ epc \in {"op_check", "dispatch", "tc_enter", "tc_loop", "tc_char", "save"}
          => current_file = Some(file_path)
    /\ open_failed => /\ epc \in {"finally", "done"}
                      /\ outcome = "fileopen"
                      /\ fail_calls = 0

\* Every attempt to open the first of two files failed and execute is over.
FirstOfTwoFilesNotOpened ==
    /\ epc = "done"
    /\ open_failed
    /\ attempts = FileOpenRetries + 1
    /\ n_files = 2
    /\ file_i = 0

\* C7 -- Clock-out guarantee: when process_session returns after
\* start_session succeeded, whatever the replay did and whether or not
\* marking the session failed, clock_out has been invoked and _is_clocked_in
\* is False.
ClockOutGuarantee ==
    (opc = "after" /\ started) => (clock_outs >= 1 /\ ~is_clocked_in)

\* The replay returned True, marking the session failed, process_session
\* returned False.
MarkFailedAfterReplay ==
    /\ opc = "after"
    /\ started
    /\ exec_result = "true"
    /\ ret = "false"

\* The line numbers hunk h removes (pre-image) and adds (post-image), the
\* lines an operation covers, and the hunk an operation's first line is in.
HunkRemovedAt(h) == {PrePos(i) : i \in HunkLinesOf(h, "rem")}
HunkAddedAt(h) == {PostPos(i) : i \in HunkLinesOf(h, "add")}
OpLines(op) ==
    IF op.op_type = "delete" THEN DelRange(op)[1]..DelRange(op)[2]
    ELSE InsRange(op)[1]..InsRange(op)[2]
HunkLinesFor(op, h) ==
    IF op.op_type = "delete" THEN HunkRemovedAt(h) ELSE HunkAddedAt(h)
OpHunk(op) == CHOOSE h \in 1..NumHunks : op.line \in HunkLinesFor(op, h)

\* C11 -- Operation order: every operation of the compiled file covers lines
\* of exactly one hunk (also when two hunks touch), the operations of a hunk
\* precede those of the next hunk, and within a hunk every delete precedes
\* every insert.
OperationOrder ==
    /\ \A o \in 1..Len(operations) :
          \E h \in 1..hunkIdx :
              /\ OpLines(operations[o]) # {}
              /\ OpLines(operations[o]) \subseteq HunkLinesFor(operations[o], h)
    /\ \A o1, o2 \in 1..Len(operations) :
          o1 < o2 =>
              /\ OpHunk(operations[o1]) <= OpHunk(operations[o2])
              /\ ( /\ OpHunk(operations[o1]) = OpHunk(operations[o2])
                   /\ operations[o1].op_type = "insert" )
                 => operations[o2].op_type = "insert"

\* C11 witness: two hunks that touch, the first ending and the second
\* starting with a removed line, the second also adding a line; both compiled.
TouchingHunksCompiled ==
    /\ hunkIdx = 2
    /\ NumHunks = 2
    /\ ~is_new
    /\ HunkLast(1) + 1 = HunkFirst(2)
    /\ tags[HunkLast(1)] = "rem"
    /\ tags[HunkFirst(2)] = "rem"
    /\ HunkLinesOf(2, "add") # {}
    /\ Len(operations) = 3

\* The first lines of the groups of added lines of the hunks processed so far:
\* added lines whose predecessor is not an added line of the same hunk.
InsertGroupStarts ==
    {PostPos(i) : i \in {j \in 1..NumLines :
        /\ tags[j] = "add"
        /\ marks[j] # "out"
        /\ HunkOf(j) <= hunkIdx
        /\ (PostPos(j) - 1) \notin HunkAddedAt(HunkOf(j))}}

\* C12 -- New-file policy: the compiled operations of a file the diff marks
\* as newly created contain no delete and exactly one insert for every group
\* of added lines; a new file of n consecutive added lines and nothing else
\* compiles to exactly one insert at line 1 holding the n lines.
NewFilePolicy ==
    is_new =>
        /\ \A o \in 1..Len(operations) : operations[o].op_type = "insert"
        /\ {operations[o].line : o \in 1..Len(operations)} = InsertGroupStarts
        /\ Len(operations) = Cardinality(InsertGroupStarts)
        /\ UNION {OpLines(operations[o]) : o \in 1..Len(operations)}
              = UNION {HunkAddedAt(h) : h \in 1..hunkIdx}
        /\ ( /\ cpc # "hunks"
             /\ NumLines >= 1
             /\ NumHunks = 1
             /\ \A i \in 1..NumLines : tags[i] = "add" /\ marks[i] # "out" )
           => operations = <<InsertOp(1, Flatten([i \in 1..NumLines |-> DiffText(i)]))>>

\* C12 witness: a new file of three added lines was compiled.
NewFileOfThreeLinesCompiled ==
    /\ is_new
    /\ cpc # "hunks"
    /\ tags = <<"add", "add", "add">>
    /\ marks = <<"start", "cont", "cont">>
    /\ Len(operations) = 1
    /\ operations[1].line = 1

\* The file sections of the text that are binary or fully deleted, the
\* others, and the number of occurrences of a value in a sequence.
IsSkipped(f) == f.kind \in {"binary", "removed", "binary_removed"}
Occurrences(seq, x) == Cardinality({i \in 1..Len(seq) : seq[i] = x})

\* What compiling the file section alone returns (a one-element list for an
\* ordinary file).
CompiledAlone(f) ==
    [path |-> NormPath(f.path), is_new |-> (f.kind = "added"),
     operations |-> HunkLoop(f.hunks, 1, f.kind = "added")]

\* C13 -- Skip policy: for every tokenizable diff text, whatever mix of
\* binary, fully deleted and ordinary files it holds, parse_diff_text returns;
\* the skipped files are absent from the list and account for exactly one
\* warning each, in diff order; every other file is in the list exactly as
\* often as in the text, with the operations it has when compiled alone.
SkipPolicy ==
    (ppc = "returned" /\ ~Untokenizable(diff_text)) =>
        LET files == diff_text.files
            out == Get(returned)
            skipped == SelectSeq(files, IsSkipped)
            kept == SelectSeq(files, LAMBDA f : ~IsSkipped(f))
        IN  /\ returned # None
            /\ parse_error = None
            /\ Len(out) = Len(kept)
            /\ \A i \in 1..Len(kept) :
                  Occurrences(out, CompiledAlone(kept[i]))
                      = Cardinality({j \in 1..Len(kept) :
                            CompiledAlone(kept[j]) = CompiledAlone(kept[i])})
            /\ Len(warnings) = Len(skipped)
            /\ \A i \in 1..Len(skipped) :
                  /\ warnings[i].path = NormPath(skipped[i].path)
                  /\ warnings[i].what =
                        (IF skipped[i].kind = "removed" THEN "deleted" ELSE "binary")

\* C13 witness: a text with a binary, a fully deleted and an ordinary file
\* (the ordinary one last in the text) was compiled.
MixedDiffCompiled ==
    /\ ppc = "returned"
    /\ Len(diff_text.files) = 3
    /\ diff_text.files[1].kind = "binary"
    /\ diff_text.files[2].kind = "removed"
    /\ diff_text.files[3].kind = "ordinary"
    /\ diff_text.files[3].hunks # <<>>
    /\ returned # None
    /\ Len(Get(returned)) = 1
    /\ Len(warnings) = 2

CompilerFailureModes ==
    ppc = "returned" =>
        /\ (diff_text.files = <<>> /\ diff_text.extra \in {"none", "ws"}) =>
              /\ returned = Some(<<>>)
              /\ parse_error = None
        /\ diff_text.extra = "bad_hunk" =>
              /\ returned = None
              /\ parse_error # None
              /\ Get(parse_error).error = "DiffParseError"
              /\ Get(parse_error).cause = "PatchSet"
              /\ file_k = 0
              /\ result = <<>>
              /\ warnings = <<>>

\* C15 witness: a text with a compilable file and a hunk that cannot be
\* tokenized was rejected.
BadHunkRejected ==
    /\ ppc = "returned"
    /\ diff_text.extra = "bad_hunk"
    /\ Len(diff_text.files) >= 1
    /\ diff_text.files[1].kind = "ordinary"
    /\ parse_error # None

\* C16 -- line_end presence: every delete operation the compiler emits has
\* line_end absent when its group is one line and line_end > line otherwise;
\* the serialized form of an operation, compiled or not, holds the key
\* line_end exactly when line_end is set and differs from line, and then with
\* that value.
LineEndPresence ==
    /\ gpc \in {"deleted", "inserted", "serialized"} =>
          LET groups == IF glines = <<>> THEN <<>>
                        ELSE DeleteGroups(glines, 2, glines[1][1], glines[1][1])
          IN  /\ Len(gdel) = Len(groups)
              /\ \A g \in 1..Len(gdel) :
                    /\ groups[g][1] = groups[g][2] => gdel[g].line_end = None
                    /\ groups[g][1] # groups[g][2] =>
                          /\ gdel[g].line_end # None
                          /\ Get(gdel[g].line_end) > gdel[g].line
    /\ gpc = "serialized" =>
          /\ Len(gser) = Len(gdel) + Len(gins)
          /\ \A k \in 1..Len(gdel) :
                ("line_end" \in DOMAIN gser[k]) = (gdel[k].line_end # None)
          /\ \A k \in 1..Len(gins) :
                "line_end" \notin DOMAIN gser[Len(gdel) + k]
    /\ \A op \in DiffOperations :
          /\ ("line_end" \in DOMAIN ToDict(op))
                = (op.line_end # None /\ Get(op.line_end) # op.line)
          /\ "line_end" \in DOMAIN ToDict(op) =>
                ToDict(op)["line_end"] = Get(op.line_end)

\* C16 witness: a single-line and a multi-line delete were compiled and
\* serialized, the first without and the second with the key line_end.
BothDeleteShapesSerialized ==
    /\ gpc = "serialized"
    /\ Len(gdel) = 2
    /\ gdel[1].line_end = None
    /\ gdel[2].line_end # None
    /\ "line_end" \notin DOMAIN gser[1]
    /\ "line_end" \in DOMAIN gser[2]

\* The positions of execute between _apply_session_config and _restore_config.
ExecuteRunning == epc \notin {"off", "idle", "done"}

\* The value the session asks for: its own when set, else the pre-call value.
MergedValue(key) ==
    IF replay_config[key] # None THEN Get(replay_config[key]) ELSE pre_call[key]

ContentIffInsert ==
    /\ vpc = "done" /\ fd_status = "built" => ~content_kept
    /\ vpc = "done" /\ ~v_raised /\ errors = 0 => ~content_passed

\* C18 -- Validation modes: for every session dictionary validate_session
\* returns a list (with an entry when a rule is broken) rather than raising,
\* and ReplaySession.from_dict raises SessionValidationError at the first
\* element in document order that breaks a rule, building no session.
ValidationModes ==
    /\ ~v_raised
    /\ vpc = "done" /\ first_bad # None =>
          /\ errors > 0
          /\ fd_status = "raised"
          /\ fd_at = first_bad

\* C19 -- Unknown operation kinds: a session with an operation whose type is
\* missing or not one of navigate, delete, insert is rejected by
\* validate_session (an entry in its list, or no list at all) and by
\* Operation.from_dict (SessionValidationError), so every operation from_dict
\* builds is of a known kind and _execute_operation never takes its
\* "unknown operation type" branch.
UnknownKindsRejected ==
    /\ unknown_seen => fd_status \in {"raised", "crashed"} /\ (v_raised \/ errors > 0)
    /\ cur_op # None /\ Get(cur_op).dict /\ Get(cur_op).type \notin OpKinds =>
          /\ OperationFromDict(Get(cur_op)).status = "invalid"
          /\ \/ ValidateOperation(Get(cur_op)).raised
             \/ ValidateOperation(Get(cur_op)).errors[1] = "type"
    /\ built_kinds \subseteq OpKinds
    /\ "unknown" \notin dispatched

\* A session whose only flaw is an operation of unknown type was read to the
\* end by validate_session and refused by from_dict at that operation.
UnknownKindRefused ==
    /\ vpc = "op_read"
    /\ unknown_seen
    /\ Get(cur_op).type = "bogus"
    /\ Get(cur_op).line = JInt(1)
    /\ first_bad = Some(<<1, 1>>)
    /\ fd_status = "raised"
    /\ fd_at = Some(<<1, 1>>)
    /\ ~v_raised
    /\ errors = 1

\* C21: two runs of type_code over the same text, with the controller's own
\* settings and the generator seeded alike, make the same calls on the input
\* backend and inject typos at the same positions, whatever else drew from
\* the generator in between and whatever was typed before.
SameSeedSameEvents ==
    (tpc = "returned" /\ first_run # None /\ t_result = "true" /\ t_override = None)
        => /\ events = Get(first_run).events
           /\ typos = Get(first_run).typos

\* A step of reset_typing_state.
ResetStep == tpc = "idle" /\ tpc' = "idle" /\ chars_typed' = 0

\* C22: _chars_typed never decreases in a step of a type_code call, whether
\* the call completes, is aborted or fails; it is the same at the start of a
\* call as at the end of the call before; only reset_typing_state sets it
\* back to 0.
FatigueState ==
    [][/\ chars_typed' >= chars_typed \/ ResetStep
       /\ (tpc \in {"idle", "returned"} /\ ~ResetStep) => chars_typed' = chars_typed]_vars

\* A later call has typed its first character, the counter holds more than
\* this call has typed.
FatigueCarried == tpc = "loop" /\ t_i = 1 /\ chars_typed = 3

\* The text a sequence of calls on the input backend produces: type_text
\* appends its character, Return and Tab append the newline and the tab,
\* BackSpace removes the last character, the other keys leave the text alone.
RECURSIVE Interpret(_)
Interpret(evs) ==
    IF evs = <<>> THEN <<>>
    ELSE LET out == Interpret(SubSeq(evs, 1, Len(evs) - 1))
             e == evs[Len(evs)]
         IN  IF e[1] = "type_text" THEN Append(out, e[2])
             ELSE IF e = <<"key_press", "Return">> THEN Append(out, "\n")
             ELSE IF e = <<"key_press", "Tab">> THEN Append(out, "\t")
             ELSE IF e = <<"key_press", "BackSpace">>
             THEN SubSeq(out, 1, Len(out) - 1)
             ELSE out

\* The calls of the last iteration of type_code's loop.
LastEvents == SubSeq(events, last_n + 1, Len(events))

\* C29: the calls of a completed type_code call, read with BackSpace removing
\* the last character, produce the text with exactly the positions of the
\* uncorrected typos changed; a corrected typo is the typo, BackSpace, the
\* intended character; typos are injected only at typo candidates; with a
\* typo probability of 0 or a correction probability of 1 the text is produced
\* unchanged.
TypedTextFidelity ==
    /\ \A k \in typos : Lower(t_text[k]) \in TypoCandidates
    /\ (tpc = "loop" /\ t_i \in corrected_at) =>
          LET seg == LastEvents
              char == t_text[t_i]
          IN  /\ Len(seg) = 3
              /\ seg[1][1] = "type_text" /\ seg[1][2] # char
              /\ seg[2] = <<"key_press", "BackSpace">>
              /\ seg[3] = <<"type_text", char>>
    /\ (tpc = "returned" /\ t_result = "true") =>
          LET out == Interpret(events)
          IN  /\ Len(out) = Len(t_text)
              /\ \A k \in 1..Len(t_text) :
                    (out[k] # t_text[k]) <=> (k \in typos \ corrected_at)
              /\ (t_override = Some(0) \/ t_config.typo_correction_probability = 100)
                    => out = t_text

\* A completed call with a typo left in the text and a typo corrected.
TypoLeftAndTypoCorrected ==
    /\ tpc = "returned" /\ t_result = "true"
    /\ corrected_at # {}
    /\ typos \ corrected_at # {}

NewlineKeys ==
    << <<"key_press", "Return">>, <<"key_press", "Home">>,
       <<"key_combo", "shift+End">>, <<"key_press", "Delete">> >>

\* C30: an iteration of type_code's loop over a newline makes exactly the
\* calls Return, Home, shift+End, Delete, in this order, before the next
\* character is looked at; an iteration over any other character makes none
\* of the calls Home, shift+End, Delete.
NewlineHandling ==
    (tpc = "loop" /\ t_i > 0) =>
        IF t_text[t_i] = "\n"
        THEN LastEvents = NewlineKeys
        ELSE \A k \in 1..Len(LastEvents) :
                LastEvents[k] \notin {NewlineKeys[2], NewlineKeys[3], NewlineKeys[4]}

\* A newline and the character after it have been typed.
NewlineThenCharTyped ==
    /\ tpc = "loop" /\ t_i = 2
    /\ t_text = <<"\n", "b">>
    /\ SubSeq(events, 1, 4) = NewlineKeys
    /\ Len(events) > 4

\* C23: while execute runs, an abort flag that is set (the engine's, the
\* controller's or the input backend's) stays set: only the reset at the
\* start of execute clears it, no typing operation does.
AbortStaysSet ==
    [][epc # "idle" =>
          /\ engine_abort => engine_abort'
          /\ vscode_abort => vscode_abort'
          /\ input_abort => input_abort']_vars

\* A measure of how far execute has got: the files saved, the open attempts
\* made, the operations dispatched and the characters typed, in this order.
RankOp == 2 * MaxChars + 6
RankOpen == FileOpenRetries + 3
RankFile == RankOpen + MaxOps * RankOp + 3
RankTop == (MaxFiles + 1) * RankFile
RankInFile == 1 + file_i * RankFile + RankOpen
Rank ==
    CASE epc = "file_check" -> 1 + file_i * RankFile
      [] epc = "open" -> 2 + file_i * RankFile + attempts
      [] epc = "op_check" -> RankInFile + op_i * RankOp
      [] epc = "dispatch" -> RankInFile + op_i * RankOp + 1
      [] epc = "tc_enter" -> RankInFile + op_i * RankOp + 2
      [] epc = "tc_loop" -> RankInFile + op_i * RankOp + 3 + 2 * char_i
      [] epc = "tc_char" -> RankInFile + op_i * RankOp + 4 + 2 * char_i
      [] epc = "save" -> RankInFile + n_ops * RankOp + 1
      [] epc = "finally" -> RankTop + 1
      [] epc = "done" -> RankTop + 2
      [] OTHER -> 0

InFilePcs == {"op_check", "dispatch", "tc_enter", "tc_loop", "tc_char", "save"}
\* The run has not been cancelled and has not failed.
RunUndisturbed == aborts = 0 /\ outcome \in {"none", "true"}

\* The controller calls of one operation, as the claim has them and as
\* _execute_operation issues them.
ClaimedCalls(kind) ==
    IF kind = "navigate" THEN <<"goto_line">>
    ELSE IF kind = "delete" THEN <<"delete_lines">>
    ELSE <<"goto_line", "type_code">>
IssuedCalls(kind, len) ==
    IF kind = "insert" /\ len = 0 THEN <<>> ELSE ClaimedCalls(kind)

\* What the claim and its amended form share: the file is opened if and only
\* if its path is not the open one, always for the first file; operations are
\* dispatched one by one in file order; an insert's content is typed to its
\* end; the save comes after the last operation, once, and then the next file.
CallOrderFrame ==
    /\ [](RunUndisturbed =>
             /\ epc \in InFilePcs => current_file = Some(file_path)
             /\ (epc \in InFilePcs /\ file_i = 0) => attempts >= 1
             /\ epc = "save" => op_i = n_ops
             /\ (epc = "op_check" /\ op_i > 0 /\ op_kind = "insert" /\ op_len > 0)
                   => char_i = op_len)
    /\ [][RunUndisturbed =>
             /\ (epc = "file_check" /\ epc' \in {"open", "op_check"}) =>
                   (epc' = "open" <=> current_file # Some(file_path'))
             /\ op_i' # op_i =>
                   \/ epc = "file_check" /\ op_i' = 0
                   \/ epc \in {"dispatch", "tc_loop"} /\ op_i' = op_i + 1
             /\ file_i' # file_i => epc = "save" /\ file_i' = file_i + 1
             /\ (epc = "save" /\ epc' # "save") => epc' \in {"file_check", "finally"}]_vars

ProcessedOnlyOnSuccess ==
    opc = "mark" => (exec_result = "true" /\ ~replay_cut)

\* C26: single monitor: whatever start() and stop() calls were made, among
\* them a stop() whose join gave up on a thread inside a check followed by a
\* start(), at most one monitor thread is alive at any time.
SingleMonitor ==
    Cardinality({t \in Monitors : Alive(t)}) <= 1

\* C27: recovery cooldown: any two recoveries start at least
\* min_cooldown_seconds apart, whichever threads ran the checks.  The two
\* latest starts are the closest pair.
RecoveryCooldown ==
    (prev_start # None /\ last_start # None)
        => Get(last_start) - Get(prev_start) >= i_config.min_cooldown_seconds

\* C31: thinking-pause trigger: no pause decision is made before the first
\* character of a call, and the decision before a later character is made
\* on the character the editor received last, which is the typo character
\* when the previous typo was left uncorrected.  (The decision comes before
\* the wait of the character's delay and a triggered pause is slept on top
\* of that delay: the two sleeps follow the decision in the loop body.)
PauseOnEmittedChar ==
    /\ (tpc = "loop" /\ t_i = 1) => pause_on = None
    /\ pause_on # None => Get(pause_on).on = Get(pause_on).emitted

\* C32: pauses disabled: while execute runs a session whose thinking_pauses
\* is false, the pause probability is 0 after every kind of character,
\* whatever thinking_pause_probability the session sets, and no pause is
\* slept between files; with pauses enabled the pause between files is slept
\* only before the open of a file that is not the first of the session.
PausesDisabled ==
    /\ (epc \notin {"off", "idle", "done"} /\ ~replay_config.thinking_pauses)
          => \A boundary, alnum \in BOOLEAN :
                EffectivePause(thinking_pause_probability, boundary, alnum) = 0
    /\ between_pause =>
          /\ replay_config.thinking_pauses
          /\ file_i >= 1
          /\ current_file # None

\* Pauses are off, the session sets a pause probability of its own, and the
\* engine types an insert of the second file.
PausesOffSecondFileInsert ==
    /\ epc = "tc_char"
    /\ ~replay_config.thinking_pauses
    /\ replay_config.thinking_pause_probability # None
    /\ file_i = 1
    /\ char_i >= 1

ShutdownNeverLost ==
    (opc = "clock_out" /\ signal_at \in {"clock_in", "replay", "executing"})
        => (exec_result # "true" \/ replay_cut \/ replay_late)

\* C35: no replay twice.  Once process_session has returned True for a
\* session file, no later poll cycle lists that file as pending again: at
\* the head of run_once's loop no file still waiting in the pending list
\* is one that was already completed, whatever session_id the file holds.
NoReplayTwice ==
    opc = "loop" =>
        \A j \in 1..Len(pending) : j > pend_i => pending[j] \notin completed

\* C36: replay only while clocked in.  The replay of a session (the engine
\* being fetched and execute running) happens after that session's
\* start_session returned True and before its clock_out; outside a session,
\* and when the next session clocks in, the tracker is clocked out and a
\* started session has been clocked out before process_session returned;
\* no replay outcome exists for a session whose start_session did not
\* return True; and when the shutdown request was handled before
\* process_session's check that precedes the start, no session is clocked in
\* or replayed afterwards.
ReplayOnlyWhileClockedIn ==
    /\ opc \in {"replay", "executing"} =>
           (started /\ is_clocked_in /\ clock_outs = 0)
    /\ opc \in {"poll", "loop", "load", "clock_in", "after", "sleep", "stopped"} =>
           ~is_clocked_in
    /\ opc = "clock_in" => (~started /\ clock_outs = 0)
    /\ (opc = "after" /\ started) => clock_outs >= 1
    /\ exec_result # "none" => started
    /\ signal_at \in {"poll", "loop", "load", "sleep", "after"} =>
           opc \notin {"clock_in", "replay", "executing", "clock_out", "mark"}

\* The second session of a poll cycle is being replayed after the first one
\* was clocked in, replayed and clocked out.
SecondSessionReplaying ==
    /\ opc = "executing"
    /\ pend_i = 1
    /\ completed # {}

\* C37: validator and deserializer agree.  When both readers are through
\* with a session dictionary, validate_session has returned an empty list
\* exactly when ReplaySession.from_dict has returned a session.
ValidatorAndDeserializerAgree ==
    vpc = "done" => ((errors = 0 /\ ~v_raised) <=> fd_status = "built")

\* C38: wire round trip.  Every operation the compiler emits has line >= 1,
\* and once the compiled file has been written by build_session and read
\* back by ReplaySession.from_dict, reading succeeded and gave as many
\* operations in the same order, each with the kind, line, line_end and
\* content of the compiled one; line_end is absent from the dictionary and
\* from the operation read back when the operation covers a single line.
WireRoundTrip ==
    /\ \A k \in 1..Len(operations) : operations[k].line >= 1
    /\ cpc \in {"apply", "done"} =>
          /\ read_back.status = "ok"
          /\ Len(wire) = Len(operations)
          /\ Len(read_back.operations) = Len(operations)
          /\ \A k \in 1..Len(operations) :
                LET op == operations[k]
                    back == read_back.operations[k]
                    single == op.line_end = None \/ Get(op.line_end) = op.line
                IN  /\ back.op_type = op.op_type
                    /\ back.line = op.line
                    /\ back.content = op.content
                    /\ back.line_end = (IF single THEN None ELSE op.line_end)
                    /\ single <=> "line_end" \notin DOMAIN wire[k]

\* A file compiled to a one-line delete, a range delete and an insert has
\* been written and read back.
ThreeKindsReadBack ==
    /\ cpc = "apply"
    /\ \E i, j, k \in 1..Len(operations) :
          /\ operations[i].op_type = "delete" /\ operations[i].line_end = None
          /\ operations[j].op_type = "delete" /\ operations[j].line_end # None
          /\ operations[k].op_type = "insert"
    /\ read_back.status = "ok"

\* C39: recovery retry limit.  _retry_count equals the number of failed
\* recovery executions since the count was last reset by a successful
\* recovery, by a start() that starts monitoring or by on_file_change();
\* once that number has reached max_retries the critical-failure callback
\* has been invoked, and it is never invoked at a count below max_retries.
RetryLimit ==
    /\ retry_count = failed_since
    /\ failed_since >= i_config.max_retries => critical_failure
    /\ triggered_at # None => Get(triggered_at) >= i_config.max_retries

\* C40: recovery stops on first failure.  execute attempts the actions in
\* list order from the first, with one result per action attempted; every
\* result but the last is a success, so nothing is executed after the first
\* failed action; when execute has returned, either the last result is a
\* failure or every action of the list was attempted, and an empty list gave
\* an empty result list.
StopsOnFirstFailure ==
    /\ Len(results) = Len(attempted)
    /\ Len(attempted) <= Len(actions)
    /\ \A k \in 1..Len(attempted) :
          /\ attempted[k] = k
          /\ results[k].action_taken = k
          /\ results[k].success = (actions[k] = "handled")
          /\ k < Len(results) => results[k].success
    /\ rpc = "returned" =>
          /\ actions = <<>> => results = <<>>
          /\ \/ Len(results) = Len(actions)
             \/ ~results[Len(results)].success

\* execute has returned after the second of four actions failed.
StoppedAtSecondOfFour ==
    /\ rpc = "returned"
    /\ Len(actions) = 4
    /\ Len(results) = 2
    /\ ~results[2].success

====
